---- MODULE Spec2Model ----
(***************************************************************************)
(* A model of packages/element/src/index.ts of satori: the Element node    *)
(* model, its escaper, serializer and parser, the selector parser and      *)
(* query engine, and the synchronous and asynchronous transforms; and of   *)
(* the POST /wechatofficial handler of the WeChat Official adapter.        *)
(*                                                                         *)
(* Strings are sequences of one-character strings.  A JavaScript value is  *)
(* a record [t |-> typeof, v |-> String(value)].  An Element is a record   *)
(* [type, attrs, children]: attrs is the Dict in insertion order, a        *)
(* sequence of [key, value] entries; children is a sequence of Elements.   *)
(* The heap is modelled by value: the forest a caller holds is a variable, *)
(* and an operation that pushes onto an array the caller can reach yields  *)
(* the new value of that variable.                                         *)
(***************************************************************************)
EXTENDS Integers, Sequences, FiniteSets, TLC

VARIABLES
  source,   \* the Element[] the caller holds and hands to the operation
  given,    \* the value `source` had when the operation was called
  rules,    \* the Dict<Transformer> handed to transform / transformAsync
  query,    \* the selector string handed to select
  text,     \* the string the caller holds: handed to, or returned by, an operation
  original, \* the value `text` had before the first operation
  call,     \* the operation that has run ("none" before any call)
  ret,      \* what the operation returned
  tasks,    \* transformAsync: the state of the async callback of every node
  aggs,     \* transformAsync: the Promise.all of every sibling list
  sync,     \* what transform returned for a copy of the input of transformAsync
  combRegExp, \* the module's combinator regex: its lastIndex
  attrRegExp, \* the module's attribute regex: its lastIndex
  request,  \* webhook: the bot's config and the session decoded from the request
  pc,       \* webhook: where the handler of the request is
  promise,  \* webhook: the promise the handler awaits
  timeout,  \* webhook: the timer set by the promise's executor
  ctx,      \* webhook: the status (0: not set) and body of the response
  events    \* webhook: the resolve calls and the timer expiry, as they happened

webhook == <<request, pc, promise, timeout, ctx, events>>

vars == <<source, given, rules, query, text, original, call, ret, tasks, aggs,
          sync, combRegExp, attrRegExp, webhook>>

\* the module is loaded: both regexes are new
InitScanners ==
  /\ combRegExp = [lastIndex |-> 0]
  /\ attrRegExp = [lastIndex |-> 0]

\* transform has not been called on a copy
InitSync == sync = [state |-> "none", out |-> <<>>]

\* no request has reached the webhook
NoRequest ==
  /\ request = [customerService |-> FALSE, aesKey |-> FALSE, session |-> FALSE]
  /\ pc = "none"
  /\ promise = [state |-> "none", value |-> <<>>]
  /\ timeout = "none"
  /\ ctx = [status |-> 0, body |-> [text |-> <<>>, encrypted |-> FALSE]]
  /\ events = <<>>

----------------------------------------------------------------------------
(* Bounds of the model *)

\* most nodes of a forest handed to transform
MaxNodes == 3

\* most nodes of a forest handed to select
MaxSelNodes == 3

\* most nodes of a forest handed to transformAsync
MaxAsyncNodes == 3

----------------------------------------------------------------------------
(* Strings and JavaScript values *)

sA == <<"a">>
sB == <<"b">>
sC == <<"c">>
sX == <<"x">>
sText == <<"t", "e", "x", "t">>
sContent == <<"c", "o", "n", "t", "e", "n", "t">>
sDefault == <<"d", "e", "f", "a", "u", "l", "t">>

JsString(s) == [t |-> "string", v |-> s]
JsTrue == [t |-> "boolean", v |-> <<"t", "r", "u", "e">>]
JsFalse == [t |-> "boolean", v |-> <<"f", "a", "l", "s", "e">>]
JsNull == [t |-> "null", v |-> <<"n", "u", "l", "l">>]

\* cosmokit isNullable: null or undefined
isNullable(value) == value.t \in {"null", "undefined"}

----------------------------------------------------------------------------
(* Dict: an object's own entries in insertion order *)

RECURSIVE dictHas(_, _)
dictHas(dict, key) ==
  IF dict = <<>> THEN FALSE
  ELSE IF dict[1].key = key THEN TRUE
  ELSE dictHas(Tail(dict), key)

RECURSIVE dictGet(_, _)
dictGet(dict, key) ==
  IF dict[1].key = key THEN dict[1].value ELSE dictGet(Tail(dict), key)

\* dict[key] = value: an existing key keeps its place
RECURSIVE dictSet(_, _, _)
dictSet(dict, key, value) ==
  IF dict = <<>> THEN <<[key |-> key, value |-> value]>>
  ELSE IF dict[1].key = key THEN <<[key |-> key, value |-> value]>> \o Tail(dict)
  ELSE <<dict[1]>> \o dictSet(Tail(dict), key, value)

----------------------------------------------------------------------------
(* Element *)

\* the object Element() assigns: { type, attrs, children }
Node(type, attrs, children) == [type |-> type, attrs |-> attrs, children |-> children]

\* cosmokit capitalize over the letters the model uses
Upper(c) ==
  CASE c = "a" -> "A" [] c = "b" -> "B" [] c = "c" -> "C" [] c = "d" -> "D"
    [] c = "k" -> "K" [] c = "x" -> "X" [] OTHER -> c

capitalize(s) == IF s = <<>> THEN s ELSE <<Upper(s[1])>> \o Tail(s)

\* the attrs loop of Element(): null skipped, true -> '', false -> no<Key>, else '' + value
RECURSIVE elementAttrs(_, _)

\* an attrs loop without the branch for false, which is stored as 'false'
elementAttrsFalseAsText(entries, attrs) ==
  IF entries = <<>> THEN attrs
  ELSE LET key == entries[1].key
           value == entries[1].value
           next == IF isNullable(value) THEN attrs
                   ELSE IF value = JsTrue THEN dictSet(attrs, key, JsString(<<>>))
                   ELSE dictSet(attrs, key, JsString(value.v))
       IN elementAttrs(Tail(entries), next)

elementAttrs(entries, attrs) ==
  IF entries = <<>> THEN attrs
  ELSE LET key == entries[1].key
           value == entries[1].value
           next == IF isNullable(value) THEN attrs
                   ELSE IF value = JsTrue THEN dictSet(attrs, key, JsString(<<>>))
                   ELSE IF value = JsFalse
                     THEN dictSet(attrs, <<"n", "o">> \o capitalize(key), JsString(<<>>))
                   ELSE dictSet(attrs, key, JsString(value.v))
       IN elementAttrs(Tail(entries), next)

\* Element('text', { content })
TextNode(content) ==
  Node(sText, elementAttrs(<<[key |-> sContent, value |-> JsString(content)]>>, <<>>), <<>>)

\* Element.Content: a string is [str |-> s], an Element is itself, an array
\* of strings and Elements is [arr |-> items]
IsStr(c) == "str" \in DOMAIN c
IsArray(c) == "arr" \in DOMAIN c
Array(items) == [arr |-> items]

toElement(content) == IF IsStr(content) THEN TextNode(content.str) ELSE content

\* toElementArray(input): one node for a string or an Element, the nodes
\* of its members for an array
toElementArray(input) ==
  IF IsArray(input) THEN [i \in 1..Len(input.arr) |-> toElement(input.arr[i])]
  ELSE <<toElement(input)>>

\* Element(type, attrs, children) with attrs a Dict and children an array
Element(type, attrs, children) ==
  Node(type, elementAttrs(attrs, <<>>), toElementArray(Array(children)))

----------------------------------------------------------------------------
(* Forests *)

Types == {sA, sB}

\* all forests of exactly n element nodes with types in `types` and no attrs
RECURSIVE ForestsN(_, _)
ForestsN(types, n) ==
  IF n = 0 THEN {<<>>}
  ELSE UNION { { <<Node(t, <<>>, kids)>> \o rest :
                   t \in types, kids \in ForestsN(types, k - 1),
                   rest \in ForestsN(types, n - k) } :
               k \in 1..n }

Forests == UNION { ForestsN(Types, n) : n \in 0..MaxNodes }

RECURSIVE Size(_)
Size(forest) ==
  IF forest = <<>> THEN 0
  ELSE 1 + Size(forest[1].children) + Size(Tail(forest))

----------------------------------------------------------------------------
(* transform *)

\* A Transformer: a boolean, literal content, or a function.  The functions
\* of the model return true, return false, or throw.
RuleTrue == [kind |-> "boolean", b |-> TRUE]
RuleFalse == [kind |-> "boolean", b |-> FALSE]
RuleContent(c) == [kind |-> "content", c |-> c]
RuleFn(f) == [kind |-> "function", f |-> f]

\* the functions handed to transform
FnNames == {"fnKeep", "fnDrop", "fnThrow"}

\* a promise that will be rejected, as an AsyncTransformer may return
RejectingPromise == [kind |-> "promise", rejects |-> TRUE]

\* what calling the function does: it throws, or returns true, false or
\* (fnReject, for transformAsync only) a promise that is rejected later
fnReturn(f, element, index, elements) ==
  CASE f = "fnKeep" -> [threw |-> FALSE, value |-> RuleTrue]
    [] f = "fnDrop" -> [threw |-> FALSE, value |-> RuleFalse]
    [] f = "fnReject" -> [threw |-> FALSE, value |-> RejectingPromise]
    [] OTHER -> [threw |-> TRUE, value |-> RuleFalse]

\* rules[element.type] ?? rules.default ?? true
ruleOf(rls, type) ==
  IF dictHas(rls, type) THEN dictGet(rls, type)
  ELSE IF dictHas(rls, sDefault) THEN dictGet(rls, sDefault)
  ELSE RuleTrue

\* the array a content result is spliced in as: toElementArray(result)
contentArray(c) == toElementArray(c)

\* transform(elements, rules) from sibling i on.  `elements` is the array
\* as it is now; the result holds the array `children` of the call (out),
\* the array `elements` as the call leaves it (src), the functions called
\* in order (log) and whether a function threw.
\* The forEach callback declares `const { type, attrs, children } = element`
\* inside `if (result === true)`: there `children` is element.children, so
\* transform(children, rules) reads it and children.push(...) appends to it.
\* A function that returns a promise makes toElementArray return undefined,
\* and spreading that throws.
RECURSIVE transformFrom(_, _, _, _)

\* a transform in which the functions of the later siblings are called
\* before those of the children of a kept node
transformFromSiblingsFirst(elements, rls, path, i) ==
  IF i > Len(elements)
  THEN [out |-> <<>>, src |-> elements, log |-> <<>>, threw |-> FALSE]
  ELSE
    LET element == elements[i]
        rule == ruleOf(rls, element.type)
        called == rule.kind = "function"
        answer == IF called THEN fnReturn(rule.f, element, i - 1, elements)
                  ELSE [threw |-> FALSE, value |-> rule]
        result == answer.value
        entry == IF called THEN <<[node |-> path \o <<i>>, index |-> i - 1]>> ELSE <<>>
    IN
      IF answer.threw \/ result.kind = "promise"
      THEN [out |-> <<>>, src |-> elements, log |-> entry, threw |-> TRUE]
      ELSE IF result = RuleTrue
      THEN
        LET inner == transformFrom(element.children, rls, path \o <<i>>, 1)
            made == Element(element.type, element.attrs, inner.out)
            kids == IF inner.threw THEN inner.src ELSE Append(inner.src, made)
            after == [elements EXCEPT ![i] = [element EXCEPT !.children = kids]]
        IN
          IF inner.threw
          THEN [out |-> <<>>, src |-> after, log |-> entry \o inner.log, threw |-> TRUE]
          ELSE
            LET rest == transformFrom(after, rls, path, i + 1)
            IN [out |-> rest.out, src |-> rest.src,
                log |-> entry \o rest.log \o inner.log, threw |-> rest.threw]
      ELSE
        LET here == IF result = RuleFalse THEN <<>> ELSE contentArray(result.c)
            rest == transformFrom(elements, rls, path, i + 1)
        IN [out |-> IF rest.threw THEN <<>> ELSE here \o rest.out, src |-> rest.src,
            log |-> entry \o rest.log, threw |-> rest.threw]

transformFrom(elements, rls, path, i) ==
  IF i > Len(elements)
  THEN [out |-> <<>>, src |-> elements, log |-> <<>>, threw |-> FALSE]
  ELSE
    LET element == elements[i]
        rule == ruleOf(rls, element.type)
        called == rule.kind = "function"
        answer == IF called THEN fnReturn(rule.f, element, i - 1, elements)
                  ELSE [threw |-> FALSE, value |-> rule]
        result == answer.value
        entry == IF called THEN <<[node |-> path \o <<i>>, index |-> i - 1]>> ELSE <<>>
    IN
      IF answer.threw \/ result.kind = "promise"
      THEN [out |-> <<>>, src |-> elements, log |-> entry, threw |-> TRUE]
      ELSE IF result = RuleTrue
      THEN
        LET inner == transformFrom(element.children, rls, path \o <<i>>, 1)
            made == Element(element.type, element.attrs, inner.out)
            kids == IF inner.threw THEN inner.src ELSE Append(inner.src, made)
            after == [elements EXCEPT ![i] = [element EXCEPT !.children = kids]]
        IN
          IF inner.threw
          THEN [out |-> <<>>, src |-> after, log |-> entry \o inner.log, threw |-> TRUE]
          ELSE
            LET rest == transformFrom(after, rls, path, i + 1)
            IN [out |-> rest.out, src |-> rest.src,
                log |-> entry \o inner.log \o rest.log, threw |-> rest.threw]
      ELSE
        LET here == IF result = RuleFalse THEN <<>> ELSE contentArray(result.c)
            rest == transformFrom(elements, rls, path, i + 1)
        IN [out |-> IF rest.threw THEN <<>> ELSE here \o rest.out, src |-> rest.src,
            log |-> entry \o rest.log, threw |-> rest.threw]

transform(elements, rls) == transformFrom(elements, rls, <<>>, 1)

----------------------------------------------------------------------------
(* The rule sets of the model *)

\* literal content: the string 'x', and the array ['x', Element('a', { k: 'v' })]
Replacement == Node(sA, <<[key |-> <<"k">>, value |-> JsString(<<"v">>)]>>, <<>>)

Contents == { [str |-> sX], Array(<<[str |-> sX], Replacement>>) }

RuleValues ==
  {RuleTrue, RuleFalse} \cup {RuleContent(c) : c \in Contents}
    \cup {RuleFn(f) : f \in FnNames}

\* a Dict<Transformer> with any of the keys a, b, default, in that order
RuleSets ==
  { ra \o rb \o rd :
      ra \in {<<>>} \cup {<<[key |-> sA, value |-> r]>> : r \in RuleValues},
      rb \in {<<>>} \cup {<<[key |-> sB, value |-> r]>> : r \in RuleValues},
      rd \in {<<>>} \cup {<<[key |-> sDefault, value |-> r]>> : r \in RuleValues} }

----------------------------------------------------------------------------
(* The caller of transform *)

Init ==
  /\ source \in Forests
  /\ given = source
  /\ rules \in RuleSets
  /\ query = <<>>
  /\ text = <<>>
  /\ original = <<>>
  /\ call = "none"
  /\ ret = [out |-> <<>>, threw |-> FALSE, log |-> <<>>]
  /\ tasks = <<>>
  /\ aggs = <<>>
  /\ InitSync /\ InitScanners /\ NoRequest

\* transform(source, rules) with source an Element[]
Transform ==
  /\ call = "none"
  /\ LET r == transform(source, rules)
     IN /\ source' = r.src
        /\ ret' = [out |-> r.out, threw |-> r.threw, log |-> r.log]
  /\ call' = "transform"
  /\ UNCHANGED <<sync, combRegExp, attrRegExp, webhook, given, rules, query, text, original, tasks, aggs>>

Next == Transform

Spec == Init /\ [][Next]_vars

----------------------------------------------------------------------------
(* Claims about transform *)

\* whether every Transformer of the rule set is, or returns, true or false
RECURSIVE KeepDropOnly(_)
KeepDropOnly(rls) ==
  \/ rls = <<>>
  \/ /\ rls[1].value \in {RuleTrue, RuleFalse, RuleFn("fnKeep"), RuleFn("fnDrop")}
     /\ KeepDropOnly(Tail(rls))

\* whether a node of this type resolves to keep under such a rule set
Keeps(rls, type) == ruleOf(rls, type) \in {RuleTrue, RuleFn("fnKeep")}

\* the forest the claim describes: the kept nodes in sibling order, each with
\* its type and attrs and the kept forest of its children
RECURSIVE KeptForest(_, _)
KeptForest(forest, rls) ==
  IF forest = <<>> THEN <<>>
  ELSE LET e == forest[1]
       IN (IF Keeps(rls, e.type)
           THEN <<Node(e.type, e.attrs, KeptForest(e.children, rls))>>
           ELSE <<>>) \o KeptForest(Tail(forest), rls)

\* C1: under a rule set that resolves every node to keep or drop, transform
\* returns one node per kept top-level node, in sibling order, with the same
\* type and attrs and the transform of its children, and nothing for a
\* dropped node.
C1_TransformKeepsAndDrops ==
  (call = "transform" /\ KeepDropOnly(rules)) => ret.out = KeptForest(given, rules)

\* C2: the source forest is the same after transform returns as it was
\* when transform was called.
C2_SourceNotModified ==
  call = "transform" => source = given

\* the Transformer the claim names for a type: the entry of the type when
\* the rule set has one, otherwise the entry `default`, otherwise true
EntryOf(rls, key) == rls[CHOOSE i \in 1..Len(rls) : rls[i].key = key].value

RuleByPriority(rls, type) ==
  IF \E i \in 1..Len(rls) : rls[i].key = type THEN EntryOf(rls, type)
  ELSE IF \E i \in 1..Len(rls) : rls[i].key = sDefault THEN EntryOf(rls, sDefault)
  ELSE RuleTrue

\* what a Transformer comes to: true, false or content, a function by what
\* it returns
Outcome(rule) ==
  IF rule = RuleFn("fnKeep") THEN RuleTrue
  ELSE IF rule = RuleFn("fnDrop") THEN RuleFalse
  ELSE rule

\* the forest the rules describe when every node gets the Transformer of
\* RuleByPriority: a kept node with the forest of its children, nothing for
\* a dropped node, the content as nodes for a replaced node
RECURSIVE AppliedForest(_, _)
AppliedForest(forest, rls) ==
  IF forest = <<>> THEN <<>>
  ELSE LET e == forest[1]
           outcome == Outcome(RuleByPriority(rls, e.type))
       IN (IF outcome = RuleTrue
           THEN <<Node(e.type, e.attrs, AppliedForest(e.children, rls))>>
           ELSE IF outcome = RuleFalse THEN <<>>
           ELSE toElementArray(outcome.c)) \o AppliedForest(Tail(forest), rls)

\* C12: the rule applied to a node is rules[node.type] when that entry is
\* present, also when it is false, otherwise rules.default when present,
\* otherwise keep: a false for the type is not overridden by the default,
\* and a node with no entry and no default is kept.
C12_RuleByPriority ==
  (call = "transform" /\ ~ret.threw) => ret.out = AppliedForest(given, rules)

\* the same for transformAsync, whose promise resolves with that forest
AsyncRuleByPriority ==
  (call = "transformAsync" /\ ret.state = "resolved")
    => ret.out = AppliedForest(given, rules)

\* a rule set with false for 'a' and a keeping default met a forest with
\* an 'a' and a 'b', and transformAsync resolved with the b only
AsyncRuleByPriorityWitness ==
  /\ call = "transformAsync"
  /\ ret.state = "resolved"
  /\ dictHas(rules, sA) /\ dictGet(rules, sA) = RuleFalse
  /\ dictHas(rules, sDefault) /\ dictGet(rules, sDefault) = RuleFn("fnKeep")
  /\ \E i, j \in 1..Len(given) : given[i].type = sA /\ given[j].type = sB
  /\ ret.out # <<>>
  /\ \A i \in 1..Len(ret.out) : ret.out[i].type = sB

\* literal content as the nodes the claim describes: an array flattened by
\* one level, a string wrapped as a text node, an Element as it is
ContentNodes(c) ==
  LET items == IF IsArray(c) THEN c.arr ELSE <<c>>
  IN [i \in 1..Len(items) |->
        IF IsStr(items[i]) THEN Node(sText, <<[key |-> sContent,
                                               value |-> JsString(items[i].str)]>>, <<>>)
        ELSE items[i]]

\* `out` is the output of a call on `siblings` as far as replaced and
\* dropped nodes go: read in sibling order, a replaced node stands for
\* exactly its content nodes, a dropped node for nothing, and a kept node
\* for whatever the call put out for it (one node of its type and attrs, with
\* children that are such an output again, or nothing)
RECURSIVE ContentInPlace(_, _, _)
ContentInPlace(out, siblings, rls) ==
  IF siblings = <<>> THEN out = <<>>
  ELSE LET e == siblings[1]
           outcome == Outcome(RuleByPriority(rls, e.type))
           nodes == ContentNodes(outcome.c)
       IN IF outcome = RuleFalse THEN ContentInPlace(out, Tail(siblings), rls)
          ELSE IF outcome = RuleTrue
          THEN \/ ContentInPlace(out, Tail(siblings), rls)
               \/ /\ out # <<>>
                  /\ out[1].type = e.type
                  /\ out[1].attrs = e.attrs
                  /\ ContentInPlace(out[1].children, e.children, rls)
                  /\ ContentInPlace(Tail(out), Tail(siblings), rls)
          ELSE /\ Len(out) >= Len(nodes)
               /\ SubSeq(out, 1, Len(nodes)) = nodes
               /\ ContentInPlace(SubSeq(out, Len(nodes) + 1, Len(out)), Tail(siblings), rls)

\* some node of the forest is replaced by content, all its ancestors kept
RECURSIVE Replaces(_, _)
Replaces(forest, rls) ==
  \E i \in 1..Len(forest) :
    LET outcome == Outcome(RuleByPriority(rls, forest[i].type))
    IN IF outcome = RuleTrue THEN Replaces(forest[i].children, rls)
       ELSE outcome # RuleFalse

\* the forest the claim describes: replaced nodes stand for their content
\* nodes, dropped nodes for nothing, kept nodes for themselves with such a
\* forest as children
RECURSIVE ReplacedForest(_, _)
ReplacedForest(forest, rls) ==
  IF forest = <<>> THEN <<>>
  ELSE LET e == forest[1]
           outcome == Outcome(RuleByPriority(rls, e.type))
       IN (IF outcome = RuleTrue
           THEN <<Node(e.type, e.attrs, ReplacedForest(e.children, rls))>>
           ELSE IF outcome = RuleFalse THEN <<>>
           ELSE ContentNodes(outcome.c)) \o ReplacedForest(Tail(forest), rls)

\* C13: when the rule of a node resolves to literal content, the output of
\* transform holds that content at the position of the node among its
\* siblings, between the outputs of the previous and the next sibling,
\* flattened by one level, strings wrapped as text nodes, and no rule
\* applied to the replacement nodes; a dropped node contributes nothing at
\* its position.
C13_ContentInPlace ==
  (call = "transform" /\ ~ret.threw /\ Replaces(given, rules))
    => ret.out = ReplacedForest(given, rules)

\* what the code does keep of it, in transform and in transformAsync: the
\* content and the dropped nodes are in place among whatever the call puts
\* out for the kept nodes
ContentAmongOutputs ==
  (\/ call = "transform" /\ ~ret.threw
   \/ call = "transformAsync" /\ ret.state = "resolved")
    => ContentInPlace(ret.out, given, rules)

\* a 'b' with no content rule stood before an 'a' whose rule is the array
\* ['x', Element('a', { k: 'v' })], and transform returned a text node and
\* that element, itself an 'a', as it was given
ContentAmongOutputsWitness ==
  /\ call = "transform"
  /\ ~ret.threw
  /\ Len(given) = 2
  /\ given[1].type = sB
  /\ given[2].type = sA
  /\ ruleOf(rules, sA) = RuleContent(Array(<<[str |-> sX], Replacement>>))
  /\ ret.out = <<TextNode(sX), Replacement>>

\* the same for transformAsync, the content inside a kept node included
AsyncContentInPlace ==
  (call = "transformAsync" /\ ret.state = "resolved" /\ Replaces(given, rules))
    => ret.out = ReplacedForest(given, rules)

\* the calls the claim describes for the siblings from i on: a function is
\* called for the node with its 0-based index, then, if the node is kept,
\* the calls for its children are made, then those for the next sibling;
\* nothing is called after a function threw
RECURSIVE CallsInOrder(_, _, _, _)
CallsInOrder(siblings, rls, path, i) ==
  IF i > Len(siblings) THEN [log |-> <<>>, threw |-> FALSE]
  ELSE
    LET rule == RuleByPriority(rls, siblings[i].type)
        entry == IF rule.kind = "function"
                 THEN <<[node |-> path \o <<i>>, index |-> i - 1]>> ELSE <<>>
        inner == IF Outcome(rule) = RuleTrue
                 THEN CallsInOrder(siblings[i].children, rls, path \o <<i>>, 1)
                 ELSE [log |-> <<>>, threw |-> FALSE]
        rest == CallsInOrder(siblings, rls, path, i + 1)
    IN IF rule = RuleFn("fnThrow") THEN [log |-> entry, threw |-> TRUE]
       ELSE IF inner.threw THEN [log |-> entry \o inner.log, threw |-> TRUE]
       ELSE [log |-> entry \o inner.log \o rest.log, threw |-> rest.threw]

\* C14: transform calls the rule functions strictly in order: the function
\* for sibling i is called with (node, i, siblings) and has returned, and
\* the transform of the children of sibling i has finished, before the
\* function for sibling i+1 is called.
C14_CallsInOrder ==
  call = "transform" => ret.log = CallsInOrder(given, rules, <<>>, 1).log

\* the function of the first sibling kept it, the function of its child was
\* called next with index 0, and then the function of the second sibling
\* with index 1
C14_Witness ==
  /\ call = "transform"
  /\ ~ret.threw
  /\ ret.log = << [node |-> <<1>>, index |-> 0], [node |-> <<1, 1>>, index |-> 0],
                  [node |-> <<2>>, index |-> 1] >>

----------------------------------------------------------------------------
(* Strings: slice, trim, split *)

\* source.slice(from, to), 0-based, to excluded
slice(s, from, to) == SubSeq(s, from + 1, to)

\* source.slice(from)
sliceFrom(s, from) == SubSeq(s, from + 1, Len(s))

\* \s over the characters of the model
IsSpace(c) == c = " "

RECURSIVE trimStart(_)
trimStart(s) == IF s # <<>> /\ IsSpace(s[1]) THEN trimStart(Tail(s)) ELSE s

RECURSIVE trimEnd(_)
trimEnd(s) ==
  IF s # <<>> /\ IsSpace(s[Len(s)]) THEN trimEnd(SubSeq(s, 1, Len(s) - 1)) ELSE s

\* query.trim()
trim(s) == trimEnd(trimStart(s))

\* input.split(sep) for a one-character separator: '' splits into ['']
RECURSIVE splitFrom(_, _, _)
splitFrom(s, sep, part) ==
  IF s = <<>> THEN <<part>>
  ELSE IF s[1] = sep THEN <<part>> \o splitFrom(Tail(s), sep, <<>>)
  ELSE splitFrom(Tail(s), sep, Append(part, s[1]))

split(s, sep) == splitFrom(s, sep, <<>>)

\* how many characters of s from 0-based position p on are spaces
RECURSIVE spacesAt(_, _)
spacesAt(s, p) ==
  IF p < Len(s) /\ s[p + 1] = " " THEN 1 + spacesAt(s, p + 1) ELSE 0

----------------------------------------------------------------------------
(* parseSelector *)

CombChars == {" ", ">", "+", "~"}

\* the match of / *([ >+~]) */ that starts at 0-based position p of q, where
\* q[p] is a space or a combinator: the leading spaces are taken greedily; if
\* a '>', '+' or '~' follows, it is the combinator and the spaces after it
\* are taken; otherwise the last leading space is given back as combinator.
combMatchAt(q, p) ==
  LET lead == spacesAt(q, p)
      at == p + lead
  IN IF at < Len(q) /\ q[at + 1] \in {">", "+", "~"}
     THEN [found |-> TRUE, index |-> p, len |-> lead + 1 + spacesAt(q, at + 1),
           comb |-> q[at + 1], lastIndex |-> p + lead + 1 + spacesAt(q, at + 1)]
     ELSE [found |-> TRUE, index |-> p, len |-> lead, comb |-> " ",
           lastIndex |-> p + lead]

\* an exec that leaves lastIndex where it was when it finds nothing
combExecKeepsLastIndex(q, lastIndex) ==
  LET starts == { p \in lastIndex..(Len(q) - 1) : q[p + 1] \in CombChars }
  IN IF starts = {}
     THEN [found |-> FALSE, index |-> 0, len |-> 0, comb |-> " ", lastIndex |-> lastIndex]
     ELSE combMatchAt(q, CHOOSE p \in starts : \A o \in starts : p <= o)

\* combRegExp.exec(q) with combRegExp.lastIndex = lastIndex (the g flag):
\* the leftmost match at or after lastIndex, none when lastIndex > q.length.
\* A match leaves lastIndex at its end, a failure sets it to 0.
combExec(q, lastIndex) ==
  LET starts == { p \in lastIndex..(Len(q) - 1) : q[p + 1] \in CombChars }
  IN IF starts = {}
     THEN [found |-> FALSE, index |-> 0, len |-> 0, comb |-> " ", lastIndex |-> 0]
     ELSE combMatchAt(q, CHOOSE p \in starts : \A o \in starts : p <= o)

\* the while loop of parseSelector on one alternative.  exec leaves
\* lastIndex at the end of the match in the string it was given, and the
\* next exec is given the sliced string with that same lastIndex.  The
\* result holds the steps and the lastIndex the loop leaves.
RECURSIVE selectorLoop(_, _, _, _)
selectorLoop(q, lastIndex, combinator, selectors) ==
  LET m == combExec(q, lastIndex)
  IN IF ~m.found
     THEN [selectors |-> Append(selectors, [type |-> q, combinator |-> combinator]),
           lastIndex |-> m.lastIndex]
     ELSE selectorLoop(sliceFrom(q, m.index + m.len), m.lastIndex, m.comb,
                       Append(selectors,
                              [type |-> slice(q, 0, m.index), combinator |-> combinator]))

\* input.split(',').map(...): the alternatives one after the other, each
\* loop starting with the lastIndex the loop before it left
RECURSIVE alternativesFrom(_, _, _)
alternativesWith(parts, one, done) ==
  alternativesFrom(parts, one.lastIndex, Append(done, one.selectors))

alternativesFrom(parts, lastIndex, done) ==
  IF parts = <<>> THEN [selectors |-> done, lastIndex |-> lastIndex]
  ELSE alternativesWith(Tail(parts), selectorLoop(trim(parts[1]), lastIndex, " ", <<>>),
                        done)

\* parseSelector(input) called when combRegExp.lastIndex = lastIndex: what
\* it returns and the lastIndex it leaves
parseSelectorFrom(input, lastIndex) ==
  alternativesFrom(split(input, ","), lastIndex, <<>>)

\* parseSelector(input) as the first call after the module is loaded
parseSelector(input) == parseSelectorFrom(input, 0).selectors

----------------------------------------------------------------------------
(* select *)

\* a loop body that re-injects the rest of a '+' group into query, as for '~'
matchGroupPlusIntoQuery(type, group, acc) ==
  LET selector == group[1]
      matched ==
        IF type # selector.type THEN acc
        ELSE IF Len(group) = 1 THEN [acc EXCEPT !.yields = @ + 1]
        ELSE IF group[2].combinator \in {" ", ">"}
          THEN [acc EXCEPT !.inner = Append(@, Tail(group))]
        ELSE [acc EXCEPT !.query = Append(@, Tail(group))]
  IN IF selector.combinator = " "
     THEN [matched EXCEPT !.inner = Append(@, group)]
     ELSE matched

\* a loop body that hands the rest of a '~' group to the children as well
matchGroupTildeIntoInner(type, group, acc) ==
  LET selector == group[1]
      matched ==
        IF type # selector.type THEN acc
        ELSE IF Len(group) = 1 THEN [acc EXCEPT !.yields = @ + 1]
        ELSE IF group[2].combinator \in {" ", ">"}
          THEN [acc EXCEPT !.inner = Append(@, Tail(group))]
        ELSE IF group[2].combinator = "+"
          THEN [acc EXCEPT !.adjacent = Append(@, Tail(group))]
        ELSE [acc EXCEPT !.query = Append(@, Tail(group)),
                         !.inner = Append(@, Tail(group))]
  IN IF selector.combinator = " "
     THEN [matched EXCEPT !.inner = Append(@, group)]
     ELSE matched

\* the body of `for (const group of local)` for one group.  acc holds how
\* often the element was yielded, and the arrays inner, adjacent and query.
matchGroup(type, group, acc) ==
  LET selector == group[1]
      matched ==
        IF type # selector.type THEN acc
        ELSE IF Len(group) = 1 THEN [acc EXCEPT !.yields = @ + 1]
        ELSE IF group[2].combinator \in {" ", ">"}
          THEN [acc EXCEPT !.inner = Append(@, Tail(group))]
        ELSE IF group[2].combinator = "+"
          THEN [acc EXCEPT !.adjacent = Append(@, Tail(group))]
        ELSE [acc EXCEPT !.query = Append(@, Tail(group))]
  IN IF selector.combinator = " "
     THEN [matched EXCEPT !.inner = Append(@, group)]
     ELSE matched

RECURSIVE matchGroups(_, _, _)
matchGroups(type, local, acc) ==
  IF local = <<>> THEN acc
  ELSE matchGroups(type, Tail(local), matchGroup(type, local[1], acc))

\* _select(elements, query): the nodes yielded, in order, each named by its
\* path (the 1-based child indexes from the forest down to the node)
RECURSIVE selectFrom(_, _, _, _, _)
RECURSIVE _select(_, _, _)

\* a loop body that yields an element after the matches among its children
selectFromChildrenFirst(elements, qry, adjacent, path, i) ==
  IF i > Len(elements) THEN <<>>
  ELSE
    LET local == qry \o adjacent
        acc == matchGroups(elements[i].type, local,
                           [yields |-> 0, inner |-> <<>>, adjacent |-> <<>>, query |-> qry])
        here == [k \in 1..acc.yields |-> path \o <<i>>]
    IN _select(elements[i].children, acc.inner, path \o <<i>>) \o here
         \o selectFrom(elements, acc.query, acc.adjacent, path, i + 1)

selectFrom(elements, qry, adjacent, path, i) ==
  IF i > Len(elements) THEN <<>>
  ELSE
    LET local == qry \o adjacent
        acc == matchGroups(elements[i].type, local,
                           [yields |-> 0, inner |-> <<>>, adjacent |-> <<>>, query |-> qry])
        here == [k \in 1..acc.yields |-> path \o <<i>>]
    IN here \o _select(elements[i].children, acc.inner, path \o <<i>>)
            \o selectFrom(elements, acc.query, acc.adjacent, path, i + 1)

_select(elements, qry, path) ==
  IF qry = <<>> THEN <<>> ELSE selectFrom(elements, qry, <<>>, path, 1)

\* select(source, query) with source an Element[]
select(elements, q) == _select(elements, parseSelector(q), <<>>)

----------------------------------------------------------------------------
(* The caller of select *)

SelTypes == {sA, sB, sC}

SelForests == UNION { ForestsN(SelTypes, n) : n \in 0..MaxSelNodes }

\* the selector 'x<sep>y'
Pair(x, sep, y) == x \o sep \o y

Separators == { <<" ">>, <<" ", ">", " ">>, <<">">>, <<" ", "+", " ">>, <<"+">>,
                <<" ", "~", " ">> }

\* selectors with an empty or malformed segment: the empty string, a
\* trailing comma, trailing and leading combinators
MalformedQueries ==
  { <<>>, <<"a", ",">>, <<"a", " ", ">">>, <<">", " ", "a">>, <<"a", " ", "+">>,
    <<"a", "a", " ", "b", " ", ">">> }

Queries ==
  { Pair(x, sep, y) : x \in SelTypes, sep \in Separators, y \in SelTypes }
    \cup SelTypes
    \cup MalformedQueries
    \cup { <<>>, <<"a", ",">>, <<"a", ",", "b">>, <<"b", ",", "a">>,
           <<"a", " ", "b", ",", "a">>, <<"a", " ", ">">>,
           <<"a", " ", "b", " ", "c">>, <<"a", "a", " ", "b", "b", " ", "c">> }

InitSelect ==
  /\ source \in SelForests
  /\ given = source
  /\ rules = <<>>
  /\ query \in Queries
  /\ text = <<>>
  /\ original = <<>>
  /\ call = "none"
  /\ ret = [out |-> <<>>, threw |-> FALSE, log |-> <<>>]
  /\ tasks = <<>>
  /\ aggs = <<>>
  /\ InitSync /\ InitScanners /\ NoRequest

\* select(source, query)
Select ==
  /\ call = "none"
  /\ ret' = [out |-> select(source, query), threw |-> FALSE, log |-> <<>>]
  /\ call' = "select"
  /\ UNCHANGED <<sync, combRegExp, attrRegExp, webhook, source, given, rules, query, text, original, tasks, aggs>>

NextSelect == Select

SpecSelect == InitSelect /\ [][NextSelect]_vars

----------------------------------------------------------------------------
(* Claims about select *)

\* the paths of all nodes of a forest
RECURSIVE PathsOf(_)
PathsOf(forest) ==
  UNION { {<<i>>} \cup { <<i>> \o p : p \in PathsOf(forest[i].children) } :
          i \in 1..Len(forest) }

RECURSIVE NodeAt(_, _)
NodeAt(forest, path) ==
  IF Len(path) = 1 THEN forest[path[1]]
  ELSE NodeAt(forest[path[1]].children, Tail(path))

TypeAt(forest, path) == NodeAt(forest, path).type

Parent(path) == SubSeq(path, 1, Len(path) - 1)

\* the nodes of type y with an ancestor of type x
UnderAncestor(forest, x, y) ==
  { p \in PathsOf(forest) :
      /\ TypeAt(forest, p) = y
      /\ \E k \in 1..(Len(p) - 1) : TypeAt(forest, SubSeq(p, 1, k)) = x }

\* the nodes of type y whose parent is of type x
UnderParent(forest, x, y) ==
  { p \in PathsOf(forest) :
      /\ TypeAt(forest, p) = y
      /\ Len(p) > 1
      /\ TypeAt(forest, Parent(p)) = x }

\* the nodes of type y whose immediately preceding sibling is of type x
AfterSibling(forest, x, y) ==
  { p \in PathsOf(forest) :
      /\ TypeAt(forest, p) = y
      /\ p[Len(p)] > 1
      /\ TypeAt(forest, Parent(p) \o <<p[Len(p)] - 1>>) = x }

Range(seq) == { seq[i] : i \in 1..Len(seq) }

\* the sequence lists exactly the members of the set, each once
ListsExactly(seq, set) == Range(seq) = set /\ Len(seq) = Cardinality(set)

\* C9: select(forest, 'x y') returns exactly the nodes of type y that have
\* an ancestor of type x, and select(forest, 'x > y') exactly the nodes of
\* type y whose parent is of type x.
C9_DescendantAndChild ==
  call = "select" =>
    \A x \in SelTypes, y \in SelTypes :
      /\ query = Pair(x, <<" ">>, y) => ListsExactly(ret.out, UnderAncestor(source, x, y))
      /\ query \in {Pair(x, <<" ", ">", " ">>, y), Pair(x, <<">">>, y)}
           => ListsExactly(ret.out, UnderParent(source, x, y))

\* C10: select(forest, 'x + y') returns exactly the nodes of type y whose
\* immediately preceding sibling, under the same parent at any depth, is of
\* type x: what '+' carries is offered to the next sibling and to no later one.
C10_AdjacentSibling ==
  call = "select" =>
    \A x \in SelTypes, y \in SelTypes :
      query \in {Pair(x, <<" ", "+", " ">>, y), Pair(x, <<"+">>, y)}
        => ListsExactly(ret.out, AfterSibling(source, x, y))

\* C10's case: on the siblings a, b, c the selector 'a + b' has returned [b]
C10_Witness ==
  /\ call = "select"
  /\ query = Pair(sA, <<" ", "+", " ">>, sB)
  /\ source = <<Node(sA, <<>>, <<>>), Node(sB, <<>>, <<>>), Node(sC, <<>>, <<>>)>>
  /\ ret.out = << <<2>> >>

\* where the set reading of C9 holds although the list reading fails
SelectSameNodesAsSet ==
  call = "select" =>
    \A x \in SelTypes, y \in SelTypes :
      /\ query = Pair(x, <<" ">>, y) => Range(ret.out) = UnderAncestor(source, x, y)
      /\ query \in {Pair(x, <<" ", ">", " ">>, y), Pair(x, <<">">>, y)}
           => ListsExactly(ret.out, UnderParent(source, x, y))

\* an alternative has a step with an empty type string
HasEmptyStep(alternative) ==
  \E i \in 1..Len(alternative) : alternative[i].type = <<>>

\* the alternatives of a parsed selector that have no such step
RECURSIVE ProperAlternatives(_)
ProperAlternatives(alternatives) ==
  IF alternatives = <<>> THEN <<>>
  ELSE (IF HasEmptyStep(alternatives[1]) THEN <<>> ELSE <<alternatives[1]>>)
         \o ProperAlternatives(Tail(alternatives))

\* C17: a selector with an empty or malformed segment (the empty string, a
\* trailing comma, a trailing or leading combinator) makes parseSelector
\* produce a step with an empty type string, and select raises no error and
\* yields no node for that alternative.
C17_EmptyStep ==
  (call = "select" /\ query \in MalformedQueries) =>
    /\ \E i \in 1..Len(parseSelector(query)) : HasEmptyStep(parseSelector(query)[i])
    /\ ~ret.threw
    /\ ret.out = _select(given, ProperAlternatives(parseSelector(query)), <<>>)

\* what holds of it: select with a malformed selector raises no error, and
\* an alternative that has a step with an empty type yields no node
EmptyStepYieldsNothing ==
  (call = "select" /\ query \in MalformedQueries) =>
    /\ ~ret.threw
    /\ ret.out = _select(given, ProperAlternatives(parseSelector(query)), <<>>)

\* p comes before q in document pre-order: p is an ancestor of q, or p is
\* at or inside an earlier sibling than q
RECURSIVE Before(_, _)
Before(p, q) ==
  IF p = <<>> THEN q # <<>>
  ELSE IF q = <<>> THEN FALSE
  ELSE IF p[1] = q[1] THEN Before(Tail(p), Tail(q))
  ELSE p[1] < q[1]

\* C11: select lists the matching nodes in document pre-order: a node is
\* yielded before any of its descendants, and the matches at or inside a
\* sibling before those at or inside a later sibling, for every selector,
\* comma-separated alternatives included.
C11_SelectInDocumentOrder ==
  call = "select" =>
    \A i, j \in 1..Len(ret.out) : Before(ret.out[i], ret.out[j]) => i < j

\* two alternatives given against document order, 'b,a', have yielded an a
\* and, after it, a b inside it
C11_Witness ==
  /\ call = "select"
  /\ query = <<"b", ",", "a">>
  /\ \E i, j \in 1..Len(ret.out) :
       /\ i < j
       /\ TypeAt(source, ret.out[i]) = sA
       /\ TypeAt(source, ret.out[j]) = sB
       /\ Len(ret.out[j]) > Len(ret.out[i])
       /\ SubSeq(ret.out[j], 1, Len(ret.out[i])) = ret.out[i]

\* a selector alternative as it is written: type names with the separator
\* written before every name but the first
Chain(names, seps) == [names |-> names, seps |-> seps]

RECURSIVE Written(_)
Written(chain) ==
  IF Len(chain.names) = 1 THEN chain.names[1]
  ELSE chain.names[1] \o chain.seps[1]
         \o Written(Chain(Tail(chain.names), Tail(chain.seps)))

\* the combinator a separator writes: its '>', '+' or '~', else the space
CombinatorOf(sep) ==
  IF \E i \in 1..Len(sep) : sep[i] # " "
  THEN sep[CHOOSE i \in 1..Len(sep) : sep[i] # " "]
  ELSE " "

\* the steps the chain stands for: one per name, each with the combinator
\* written before it, the first with the descendant combinator
StepsOf(chain) ==
  [i \in 1..Len(chain.names) |->
     [type |-> chain.names[i],
      combinator |-> IF i = 1 THEN " " ELSE CombinatorOf(chain.seps[i - 1])]]

Chains ==
  { Chain(<<x>>, <<>>) : x \in SelTypes }
    \cup { Chain(<<x, y>>, <<sep>>) : x \in SelTypes, y \in SelTypes, sep \in Separators }
    \cup { Chain(<<sA, sB, sC>>, << <<" ">>, <<" ">> >>),
           Chain(<<sA \o sA, sB \o sB, sC>>, << <<" ">>, <<" ">> >>) }

\* C21: for a selector alternative made of n type names separated by n-1
\* combinators, parseSelector returns exactly n steps: step i carries the
\* i-th name and the combinator written before it, the first step the
\* descendant combinator; 'a b c' yields the three steps a, b, c.
C21_StepPerName ==
  call = "select" =>
    \A chain \in Chains :
      query = Written(chain) => parseSelector(query) = <<StepsOf(chain)>>

\* what holds of it: one name gives one step, and two names give two
OneOrTwoNames ==
  call = "select" =>
    \A chain \in Chains :
      (query = Written(chain) /\ Len(chain.names) <= 2)
        => parseSelector(query) = <<StepsOf(chain)>>

\* 'a + b' was parsed into the steps a and b, b with the combinator '+'
OneOrTwoNamesWitness ==
  /\ call = "select"
  /\ query = <<"a", " ", "+", " ", "b">>
  /\ parseSelector(query)
       = << <<[type |-> sA, combinator |-> " "], [type |-> sB, combinator |-> "+"]>> >>

\* the nodes of type y with an earlier sibling of type x under the same parent
AfterEarlierSibling(forest, x, y) ==
  { p \in PathsOf(forest) :
      /\ TypeAt(forest, p) = y
      /\ \E k \in 1..(p[Len(p)] - 1) : TypeAt(forest, Append(Parent(p), k)) = x }

\* C22: select(forest, 'x ~ y') yields only nodes of type y that have an
\* earlier sibling of type x under the same parent: the remainder that '~'
\* re-injects is offered to no node at another depth or under another
\* parent, and to no sibling that precedes the x node.
C22_LaterSiblingOnly ==
  call = "select" =>
    \A x \in SelTypes, y \in SelTypes :
      query = Pair(x, <<" ", "~", " ">>, y)
        => Range(ret.out) = AfterEarlierSibling(source, x, y)

\* C22's case: 'a ~ b' on an a that holds a b and is followed by a b has
\* yielded the following b and not the b inside the a
C22_Witness ==
  /\ call = "select"
  /\ query = Pair(sA, <<" ", "~", " ">>, sB)
  /\ source = <<Node(sA, <<>>, <<Node(sB, <<>>, <<>>)>>), Node(sB, <<>>, <<>>)>>
  /\ ret.out = << <<2>> >>

\* the single-alternative selectors of the model that use the descendant or
\* the '~' combinator between two type names
DescendantOrTilde ==
  { Pair(x, sep, y) : x \in SelTypes, y \in SelTypes,
                      sep \in { <<" ">>, <<" ", "~", " ">> } }

NoNodeTwiceOtherwise ==
  (call = "select" /\ query \in { Written(chain) : chain \in Chains }
                   /\ query \notin DescendantOrTilde) =>
    \A i, j \in 1..Len(ret.out) : ret.out[i] = ret.out[j] => i = j

\* 'a > b' has returned the two b children of an a, each once
NoNodeTwiceOtherwiseWitness ==
  /\ call = "select"
  /\ query = Pair(sA, <<" ", ">", " ">>, sB)
  /\ source = <<Node(sA, <<>>, <<Node(sB, <<>>, <<>>), Node(sB, <<>>, <<>>)>>)>>
  /\ ret.out = << <<1, 1>>, <<1, 2>> >>

----------------
(* transformAsync *)

(* transformAsync(elements, rules) maps every element to an async callback *)
(* and awaits Promise.all of the promises.  A callback runs synchronously  *)
(* up to its first await, so calling transformAsync invokes the function   *)
(* rule of every sibling, and for a sibling whose rule is the literal true *)
(* calls transformAsync on its children, before anything is awaited.       *)
(*                                                                         *)
(* tasks[p] is the callback of the node at path p:                         *)
(*   st  = "idle"     not invoked                                          *)
(*         "called"   suspended in `await result(element, index, elements)`*)
(*         "settled"  the awaited value settled, the continuation is queued*)
(*         "children" suspended in `await transformAsync(children, rules)` *)
(*         "done"     fulfilled with val                                   *)
(*         "failed"   rejected                                             *)
(*   res = what the awaited rule function settled with                     *)
(* aggs[l] is the Promise.all over the children of the node at path l      *)
(* (l = <<>>: over the top-level elements).                                *)

Last(path) == path[Len(path)]

\* the array the node at p is a member of
SiblingsOf(forest, p) ==
  IF Len(p) = 1 THEN forest ELSE NodeAt(forest, Parent(p)).children

IdleTask == [st |-> "idle", res |-> [kind |-> "none"], val |-> <<>>]
NoAgg == [state |-> "none", values |-> <<>>, remaining |-> 0, arrival |-> <<>>]
EmptySlot == [set |-> FALSE, v |-> <<>>]

\* a Promise.all that stored the values in the order the promises fulfilled
RECURSIVE allStoreInArrivalOrder(_, _, _)
allStoreInArrivalOrder(values, index, value) ==
  IF ~values[1].set THEN <<[set |-> TRUE, v |-> value]>> \o Tail(values)
  ELSE <<values[1]>> \o allStoreInArrivalOrder(Tail(values), index, value)

\* Promise.all: the value of the promise at `index` is stored at that index
allStore(values, index, value) ==
  [values EXCEPT ![index] = [set |-> TRUE, v |-> value]]

\* (await Promise.all(...)).flat(1)
RECURSIVE flat(_)
flat(values) == IF values = <<>> THEN <<>> ELSE values[1].v \o flat(Tail(values))

\* a loop that invoked the next callback only after awaiting the previous
mappedOneAtATime(elements) == IF Len(elements) = 0 THEN 0 ELSE 1

\* how many callbacks elements.map(async ...) invokes before Promise.all
\* is called on their promises: all of them
mapped(elements) == Len(elements)

\* an await wrapped in a catch that turns a rejection into a drop
awaitedWithCatch(res) ==
  [threw |-> FALSE, value |-> IF res = RejectingPromise THEN RuleFalse ELSE res]

\* `await` of what the rule function returned, once settled: a rejected
\* promise makes the await throw, anything else is the value awaited
awaited(res) ==
  IF res = RejectingPromise THEN [threw |-> TRUE, value |-> RuleFalse]
  ELSE [threw |-> FALSE, value |-> res]

\* the callback at p fulfils with val: Promise.all of its sibling list
\* stores the value, and fulfils once every promise has
fulfil(st, p, val) ==
  LET l == Parent(p)
      agg == st.aggs[l]
      left == agg.remaining - 1
      stored == [agg EXCEPT !.values = allStore(@, Last(p), val),
                            !.remaining = left,
                            !.arrival = Append(@, Last(p)),
                            !.state = IF left = 0 THEN "fulfilled" ELSE @]
  IN [tasks |-> [st.tasks EXCEPT ![p].st = "done", ![p].val = val],
      aggs |-> IF agg.state = "pending" THEN [st.aggs EXCEPT ![l] = stored] ELSE st.aggs]

\* the callback at p rejects: Promise.all of its sibling list rejects at once
reject(st, p) ==
  LET l == Parent(p)
  IN [tasks |-> [st.tasks EXCEPT ![p].st = "failed"],
      aggs |-> IF st.aggs[l].state = "pending"
               THEN [st.aggs EXCEPT ![l].state = "rejected"] ELSE st.aggs]

\* the synchronous part of transformAsync(elements, rules) for the sibling
\* list at l, and of the callback of sibling i (startCallback)
RECURSIVE startLevel(_, _, _, _)
RECURSIVE startCallbacks(_, _, _, _, _)
RECURSIVE startCallback(_, _, _, _, _)
startLevel(st, rls, l, elements) ==
  LET n == Len(elements)
      opened == [st EXCEPT !.aggs[l] =
                   [state |-> IF n = 0 THEN "fulfilled" ELSE "pending",
                    values |-> [i \in 1..n |-> EmptySlot],
                    remaining |-> n, arrival |-> <<>>]]
  IN startCallbacks(opened, rls, l, elements, 1)

startCallbacks(st, rls, l, elements, i) ==
  IF i > mapped(elements) THEN st
  ELSE startCallbacks(startCallback(st, rls, l, elements, i), rls, l, elements, i + 1)

startCallback(st, rls, l, elements, i) ==
  LET element == elements[i]
      p == l \o <<i>>
      rule == ruleOf(rls, element.type)
  IN IF rule.kind = "function"
     THEN LET answer == fnReturn(rule.f, element, i - 1, elements)
          IN IF answer.threw
             THEN reject([st EXCEPT !.tasks[p].res = [kind |-> "thrown"]], p)
             ELSE [st EXCEPT !.tasks[p].st = "called"]
     ELSE IF rule = RuleTrue
     THEN startLevel([st EXCEPT !.tasks[p].st = "children"], rls, p, element.children)
     ELSE IF rule = RuleFalse
     THEN fulfil(st, p, <<>>)
     ELSE fulfil(st, p, contentArray(rule.c))

\* the callback at p after `await result(...)` settled with res
resume(st, rls, forest, p) ==
  LET element == NodeAt(forest, p)
      answer == awaited(st.tasks[p].res)
      result == answer.value
  IN IF answer.threw THEN reject(st, p)
     ELSE IF result = RuleTrue
     THEN startLevel([st EXCEPT !.tasks[p].st = "children"], rls, p, element.children)
     ELSE IF result = RuleFalse THEN fulfil(st, p, <<>>)
     ELSE fulfil(st, p, contentArray(result.c))

\* the callback at p after `await transformAsync(children, rules)` settled
join(st, forest, p) ==
  LET element == NodeAt(forest, p)
  IN IF st.aggs[p].state = "rejected" THEN reject(st, p)
     ELSE fulfil(st, p, <<Element(element.type, element.attrs, flat(st.aggs[p].values))>>)

----------------------------------------------------------------------------
(* The caller of transformAsync and the event loop *)

AsyncForests == UNION { ForestsN(Types, n) : n \in 0..MaxAsyncNodes }

\* the rule sets handed to transformAsync: a rule for 'a', or none, and a
\* default, or none
AsyncRuleSets ==
  { ra \o rd :
      ra \in {<<>>} \cup {<<[key |-> sA, value |-> r]>> :
                            r \in RuleValues \cup {RuleFn("fnReject")}},
      rd \in {<<>>} \cup {<<[key |-> sDefault, value |-> r]>> :
                            r \in {RuleFalse, RuleFn("fnKeep"), RuleFn("fnDrop"),
                                   RuleFn("fnReject")}} }

InitAsync ==
  /\ source \in AsyncForests
  /\ given = source
  /\ rules \in AsyncRuleSets
  /\ query = <<>>
  /\ text = <<>>
  /\ original = <<>>
  /\ call = "none"
  /\ ret = [state |-> "none", out |-> <<>>]
  /\ tasks = [p \in PathsOf(source) |-> IdleTask]
  /\ aggs = [l \in {<<>>} \cup PathsOf(source) |-> NoAgg]
  /\ InitSync /\ InitScanners /\ NoRequest

\* transformAsync(source, rules) is called: its synchronous part runs
TransformAsync ==
  /\ call = "none"
  /\ LET st == startLevel([tasks |-> tasks, aggs |-> aggs], rules, <<>>, source)
     IN tasks' = st.tasks /\ aggs' = st.aggs
  /\ call' = "transformAsync"
  /\ ret' = [state |-> "pending", out |-> <<>>]
  /\ UNCHANGED <<sync, combRegExp, attrRegExp, webhook, source, given, rules, query, text, original>>

\* what the rule function called for the node at p returned settles
Settle(p) ==
  /\ tasks[p].st = "called"
  /\ LET element == NodeAt(source, p)
         rule == ruleOf(rules, element.type)
     IN tasks' = [tasks EXCEPT
                    ![p].st = "settled",
                    ![p].res = fnReturn(rule.f, element, Last(p) - 1,
                                        SiblingsOf(source, p)).value]
  /\ UNCHANGED <<sync, combRegExp, attrRegExp, webhook, source, given, rules, query, text, original, call, ret, aggs>>

\* the continuation of the callback at p after its first await runs
Resume(p) ==
  /\ tasks[p].st = "settled"
  /\ LET st == resume([tasks |-> tasks, aggs |-> aggs], rules, source, p)
     IN tasks' = st.tasks /\ aggs' = st.aggs
  /\ UNCHANGED <<sync, combRegExp, attrRegExp, webhook, source, given, rules, query, text, original, call, ret>>

\* the continuation of the callback at p after transformAsync(children) runs
Join(p) ==
  /\ tasks[p].st = "children"
  /\ aggs[p].state \in {"fulfilled", "rejected"}
  /\ LET st == join([tasks |-> tasks, aggs |-> aggs], source, p)
     IN tasks' = st.tasks /\ aggs' = st.aggs
  /\ UNCHANGED <<sync, combRegExp, attrRegExp, webhook, source, given, rules, query, text, original, call, ret>>

\* the top-level transformAsync continues after its await and settles
Return ==
  /\ call = "transformAsync"
  /\ ret.state = "pending"
  /\ aggs[<<>>].state \in {"fulfilled", "rejected"}
  /\ ret' = IF aggs[<<>>].state = "rejected"
            THEN [state |-> "rejected", out |-> <<>>]
            ELSE [state |-> "resolved", out |-> flat(aggs[<<>>].values)]
  /\ UNCHANGED <<sync, combRegExp, attrRegExp, webhook, source, given, rules, query, text, original, call, tasks, aggs>>

NextAsync ==
  \/ TransformAsync
  \/ \E p \in PathsOf(source) : Settle(p)
  \/ \E p \in PathsOf(source) : Resume(p)
  \/ \E p \in PathsOf(source) : Join(p)
  \/ Return

SpecAsync == InitAsync /\ [][NextAsync]_vars

----------------------------------------------------------------------------
(* Claims about transformAsync *)

\* the outputs of the callbacks of the first n siblings under l, in sibling order
RECURSIVE OutputsInOrder(_, _)
OutputsInOrder(l, n) ==
  IF n = 0 THEN <<>> ELSE OutputsInOrder(l, n - 1) \o tasks[l \o <<n>>].val

\* the rule of the node at p resolved to true
ResolvedKeep(p) ==
  \/ ruleOf(rules, TypeAt(source, p)) = RuleTrue
  \/ tasks[p].res = RuleTrue

\* C3: whatever the order in which the rule functions complete, the forest
\* transformAsync resolves with lists the outputs of the siblings in sibling
\* order, at the top level and in the children of every kept node.
C3_AsyncKeepsSiblingOrder ==
  call = "transformAsync" =>
    /\ ret.state = "resolved" => ret.out = OutputsInOrder(<<>>, Len(source))
    /\ \A p \in PathsOf(source) :
         (tasks[p].st = "done" /\ ResolvedKeep(p)) =>
           /\ Len(tasks[p].val) = 1
           /\ tasks[p].val[1].type = TypeAt(source, p)
           /\ tasks[p].val[1].children =
                OutputsInOrder(p, Len(NodeAt(source, p).children))

\* C3's case: two top-level siblings of different types, the second
\* fulfilled before the first, and the call resolved with both outputs
C3_Witness ==
  /\ call = "transformAsync"
  /\ ret.state = "resolved"
  /\ Len(source) = 2
  /\ source[1].type # source[2].type
  /\ aggs[<<>>].arrival = <<2, 1>>
  /\ Len(ret.out) = 2
  /\ ret.out[1].type = source[1].type
  /\ ret.out[2].type = source[2].type

\* the rule function called for the node at p threw or its promise rejected
CallableFailed(p) == tasks[p].res \in {[kind |-> "thrown"], RejectingPromise}

\* no continuation is queued: only pending rule functions can still settle
Quiescent ==
  /\ \A p \in PathsOf(source) :
       /\ tasks[p].st # "settled"
       /\ ~(tasks[p].st = "children" /\ aggs[p].state \in {"fulfilled", "rejected"})
  /\ ~(ret.state = "pending" /\ aggs[<<>>].state \in {"fulfilled", "rejected"})

\* C4: once a rule function called at any depth has failed, the promise of
\* the top-level call never resolves, and it is rejected as soon as the
\* queued continuations have run, whatever the other siblings do.
C4_AsyncFailurePropagates ==
  (call = "transformAsync" /\ \E p \in PathsOf(source) : CallableFailed(p)) =>
    /\ ret.state # "resolved"
    /\ Quiescent => ret.state = "rejected"

\* C4's case: a rule function of a nested node failed, another callback
\* fulfilled, and the top-level promise is rejected
C4_Witness ==
  /\ call = "transformAsync"
  /\ ret.state = "rejected"
  /\ \E p \in PathsOf(source), q \in PathsOf(source) :
       /\ Len(p) = 2
       /\ CallableFailed(p)
       /\ tasks[q].st = "done"

\* transformAsync has been called on the sibling list under l
Started(l) == aggs[l].state # "none"

\* C5: as soon as transformAsync is called on a sibling list, the callback
\* of every sibling has been invoked (its rule function called), and the
\* children of every sibling whose rule is or has resolved to keep are being
\* transformed, whether or not other siblings' functions are still pending.
C5_AsyncFanOut ==
  call = "transformAsync" =>
    \A p \in PathsOf(source) :
      /\ Started(Parent(p)) => tasks[p].st # "idle"
      /\ (Started(Parent(p)) /\ ruleOf(rules, TypeAt(source, p)) = RuleTrue) => Started(p)
      /\ (tasks[p].res = RuleTrue /\ tasks[p].st # "settled") => Started(p)

\* C5's case: the function of the first sibling is still pending while the
\* second sibling has resolved to keep and the function of its child has
\* been called
C5_Witness ==
  /\ call = "transformAsync"
  /\ Len(source) = 2
  /\ Len(source[2].children) = 1
  /\ tasks[<<1>>].st = "called"
  /\ tasks[<<2>>].st = "children"
  /\ tasks[<<2>>].res = RuleTrue
  /\ tasks[<<2, 1>>].st = "called"

----------------------------------------------------------------------------
(* transform and transformAsync on the same input *)

\* transform(copy, rules), the copy being structurally equal to the forest
\* handed to transformAsync.  The two calls share no object, so the order
\* of the two is immaterial; the copy is transformed once transformAsync
\* has settled.
TransformCopy ==
  /\ call = "transformAsync"
  /\ ret.state \in {"resolved", "rejected"}
  /\ sync.state = "none"
  /\ LET r == transform(given, rules)
     IN sync' = [state |-> IF r.threw THEN "threw" ELSE "returned", out |-> r.out]
  /\ UNCHANGED <<source, given, rules, query, text, original, call, ret, tasks, aggs,
                 combRegExp, attrRegExp, webhook>>

NextBoth ==
  \/ NextAsync
  \/ TransformCopy

SpecBoth == InitAsync /\ [][NextBoth]_vars

\* every callable of the rule set completes without failing
CallablesComplete(rls) ==
  \A i \in 1..Len(rls) : rls[i].value \notin {RuleFn("fnThrow"), RuleFn("fnReject")}

\* C23: transform and transformAsync agree: for a rule set whose callables
\* are deterministic and complete without failing, the forest resolved by
\* transformAsync is structurally equal to the forest returned by transform
\* on an identical copy of the input.
C23_SyncAndAsyncAgree ==
  (ret.state = "resolved" /\ sync.state # "none" /\ CallablesComplete(rules))
    => sync.state = "returned" /\ sync.out = ret.out

\* what holds of it: the two agree when no top-level node is kept
AgreeWhenNoneKept ==
  (ret.state = "resolved" /\ sync.state # "none" /\ CallablesComplete(rules)
     /\ \A i \in 1..Len(given) : ~Keeps(rules, given[i].type))
    => sync.state = "returned" /\ sync.out = ret.out

\* an a replaced by content and a dropped b: both transforms have given the
\* content nodes
AgreeWhenNoneKeptWitness ==
  /\ ret.state = "resolved"
  /\ sync.state = "returned"
  /\ \E i, j \in 1..Len(given) : given[i].type = sA /\ given[j].type = sB
  /\ dictHas(rules, sA) /\ dictGet(rules, sA).kind = "content"
  /\ dictHas(rules, sDefault) /\ dictGet(rules, sDefault) = RuleFn("fnDrop")
  /\ sync.out = ret.out
  /\ sync.out # <<>>

----------------------------------------------------------------------------
(* escape and unescape *)

startsWith(s, pat) == Len(s) >= Len(pat) /\ SubSeq(s, 1, Len(pat)) = pat

\* source.replace(/pat/g, rep) for a literal pattern: leftmost matches,
\* one after the other, the replacement is not scanned again
RECURSIVE replaceAll(_, _, _)
replaceAll(s, pat, rep) ==
  IF s = <<>> THEN <<>>
  ELSE IF startsWith(s, pat) THEN rep \o replaceAll(sliceFrom(s, Len(pat)), pat, rep)
  ELSE <<s[1]>> \o replaceAll(Tail(s), pat, rep)

eAmp == <<"&", "a", "m", "p", ";">>
eLt == <<"&", "l", "t", ";">>
eGt == <<"&", "g", "t", ";">>
eQuot == <<"&", "q", "u", "o", "t", ";">>

\* Element.escape(source, inline)
escape(src, inline) ==
  LET result == replaceAll(replaceAll(replaceAll(src, <<"&">>, eAmp), <<"<">>, eLt),
                           <<">">>, eGt)
  IN IF inline THEN replaceAll(result, <<"\"">>, eQuot) ELSE result

\* an unescape that reverses &amp; first
unescapeAmpFirst(src) ==
  replaceAll(replaceAll(replaceAll(replaceAll(src, eAmp, <<"&">>), eLt, <<"<">>),
                        eGt, <<">">>), eQuot, <<"\"">>)

\* Element.unescape(source)
unescape(src) ==
  replaceAll(replaceAll(replaceAll(replaceAll(src, eLt, <<"<">>), eGt, <<">">>),
                        eQuot, <<"\"">>), eAmp, <<"&">>)

----------------------------------------------------------------------------
(* camelize and hyphenate (cosmokit) *)

Lowers == <<"a", "b", "c", "d", "e", "f", "g", "h", "i", "j", "k", "l", "m",
            "n", "o", "p", "q", "r", "s", "t", "u", "v", "w", "x", "y", "z">>
Uppers == <<"A", "B", "C", "D", "E", "F", "G", "H", "I", "J", "K", "L", "M",
            "N", "O", "P", "Q", "R", "S", "T", "U", "V", "W", "X", "Y", "Z">>

IsLower(c) == \E i \in 1..Len(Lowers) : Lowers[i] = c
IsUpper(c) == \E i \in 1..Len(Uppers) : Uppers[i] = c

toUpperCase(c) ==
  IF IsLower(c) THEN Uppers[CHOOSE i \in 1..Len(Lowers) : Lowers[i] = c] ELSE c
toLowerCase(c) ==
  IF IsUpper(c) THEN Lowers[CHOOSE i \in 1..Len(Uppers) : Uppers[i] = c] ELSE c

\* source.replace(/[_-][a-z]/g, str => str.slice(1).toUpperCase())
RECURSIVE camelize(_)
camelize(s) ==
  IF s = <<>> THEN <<>>
  ELSE IF Len(s) >= 2 /\ s[1] \in {"_", "-"} /\ IsLower(s[2])
    THEN <<toUpperCase(s[2])>> \o camelize(sliceFrom(s, 2))
  ELSE <<s[1]>> \o camelize(Tail(s))

uncapitalize(s) == IF s = <<>> THEN s ELSE <<toLowerCase(s[1])>> \o Tail(s)

\* how many characters of s from 0-based position p on are upper-case letters
RECURSIVE uppersAt(_, _)
uppersAt(s, p) ==
  IF p < Len(s) /\ IsUpper(s[p + 1]) THEN 1 + uppersAt(s, p + 1) ELSE 0

\* s.replace(/.[A-Z]+/g, str => str[0] + '-' + str.slice(1).toLowerCase())
RECURSIVE hyphenateUppers(_)
hyphenateUppers(s) ==
  IF s = <<>> THEN <<>>
  ELSE LET n == uppersAt(s, 1)
       IN IF n > 0
          THEN <<s[1], "-">> \o [i \in 1..n |-> toLowerCase(s[i + 1])]
                 \o hyphenateUppers(sliceFrom(s, n + 1))
          ELSE <<s[1]>> \o hyphenateUppers(Tail(s))

\* uncapitalize(source).replace(/_/g, '-').replace(/.[A-Z]+/g, ...)
hyphenate(s) == hyphenateUppers(replaceAll(uncapitalize(s), <<"_">>, <<"-">>))

----------------------------------------------------------------------------
(* toString *)

\* the text of one attrs entry in toString
attrText(entry) ==
  IF isNullable(entry.value) THEN <<>>
  ELSE IF entry.value = JsString(<<>>) THEN <<" ">> \o hyphenate(entry.key)
  ELSE <<" ">> \o hyphenate(entry.key) \o <<"=", "\"">> \o escape(entry.value.v, TRUE)
         \o <<"\"">>

RECURSIVE attrsText(_)
attrsText(attrs) ==
  IF attrs = <<>> THEN <<>> ELSE attrText(attrs[1]) \o attrsText(Tail(attrs))

\* ElementConstructor.toString, and children.join('') (joinAll); a type of
\* <<>> stands for the null or empty type of a fragment
RECURSIVE toString(_)
RECURSIVE joinAll(_)
toString(el) ==
  IF el.type = <<>> THEN joinAll(el.children)
  ELSE IF el.type = sText THEN escape(dictGet(el.attrs, sContent).v, FALSE)
  ELSE IF el.children = <<>>
    THEN <<"<">> \o el.type \o attrsText(el.attrs) \o <<"/", ">">>
  ELSE <<"<">> \o el.type \o attrsText(el.attrs) \o <<">">> \o joinAll(el.children)
         \o <<"<", "/">> \o el.type \o <<">">>

joinAll(elements) ==
  IF elements = <<>> THEN <<>> ELSE toString(elements[1]) \o joinAll(Tail(elements))

----------------------------------------------------------------------------
(* parse: the tokenizer *)

\* the 0-based position of the first `ch` of s at or after `from`, or -1
RECURSIVE indexOf(_, _, _)
indexOf(s, ch, from) ==
  IF from >= Len(s) THEN -1
  ELSE IF s[from + 1] = ch THEN from
  ELSE indexOf(s, ch, from + 1)

\* the end of the run of non-space characters of c that starts at k
RECURSIVE runEnd(_, _)
runEnd(c, k) == IF k < Len(c) /\ ~IsSpace(c[k + 1]) THEN runEnd(c, k + 1) ELSE k

\* (\/?)\s*([^\s>]+)([^>]*?)\s*(\/?) against the whole of c, the text
\* between a '<' and the next '>', with the first group taken (close) or
\* not: the name is the longest run of non-space characters, the attribute
\* text the shortest that leaves only spaces and an optional '/'
tagAttempt(c, close) ==
  LET k == (IF close THEN 1 ELSE 0) + spacesAt(c, IF close THEN 1 ELSE 0)
      e == runEnd(c, k)
      rem == sliceFrom(c, e)
      slash == rem # <<>> /\ rem[Len(rem)] = "/"
      body == IF slash THEN SubSeq(rem, 1, Len(rem) - 1) ELSE rem
  IN [found |-> e > k,
      close |-> IF close THEN <<"/">> ELSE <<>>,
      tag |-> slice(c, k, e),
      attrs |-> trimEnd(body),
      empty |-> IF slash THEN <<"/">> ELSE <<>>]

\* the groups tagRegExp captures in c: (\/?) is tried with the '/' first
\* and, when the rest does not match then, without it
tagGroupsElse(m, c) == IF m.found THEN m ELSE tagAttempt(c, FALSE)

tagGroups(c) ==
  IF c # <<>> /\ c[1] = "/" THEN tagGroupsElse(tagAttempt(c, TRUE), c)
  ELSE tagAttempt(c, FALSE)

\* the RegExpExecArray of a match from position i to the '>' at position j
tagMatch(i, j, m) ==
  IF ~m.found THEN [found |-> FALSE]
  ELSE [found |-> TRUE, index |-> i, len |-> j - i + 1, close |-> m.close,
        tag |-> m.tag, attrs |-> m.attrs, empty |-> m.empty]

tagMatchTo(s, i, j) ==
  IF j < 0 THEN [found |-> FALSE] ELSE tagMatch(i, j, tagGroups(slice(s, i + 1, j)))

\* tagRegExp matched at the '<' at 0-based position i of s: [^>] keeps the
\* match within the text up to the next '>'
tagMatchAt(s, i) == tagMatchTo(s, i, indexOf(s, ">", i + 1))

\* tagRegExp.exec(source): the leftmost match (tagRegExp has no g flag)
RECURSIVE tagExecFrom(_, _)
tagExecFrom(s, i) ==
  IF i >= Len(s) THEN [found |-> FALSE]
  ELSE IF s[i + 1] = "<" /\ tagMatchAt(s, i).found THEN tagMatchAt(s, i)
  ELSE tagExecFrom(s, i + 1)

tagExec(s) == tagExecFrom(s, 0)

\* the first 0-based position of a at or after p that is neither a space nor '='
RECURSIVE keyStart(_, _)
keyStart(a, p) ==
  IF p < Len(a) /\ (IsSpace(a[p + 1]) \/ a[p + 1] = "=") THEN keyStart(a, p + 1) ELSE p

RECURSIVE keyEnd(_, _)
keyEnd(a, e) ==
  IF e < Len(a) /\ ~IsSpace(a[e + 1]) /\ a[e + 1] # "=" THEN keyEnd(a, e + 1) ELSE e

\* attrRegExp.exec(attrs) with attrRegExp.lastIndex = lastIndex (the g flag)
attrExec(a, lastIndex) ==
  LET p == keyStart(a, lastIndex)
      e == keyEnd(a, p)
      quoted == e + 1 < Len(a) /\ a[e + 1] = "=" /\ a[e + 2] = "\""
      c == IF quoted THEN indexOf(a, "\"", e + 2) ELSE -1
  IN IF p >= Len(a) THEN [found |-> FALSE, lastIndex |-> 0]
     ELSE IF c >= 0
     THEN [found |-> TRUE, key |-> slice(a, p, e), value |-> slice(a, e + 2, c),
           lastIndex |-> c + 1]
     ELSE [found |-> TRUE, key |-> slice(a, p, e), value |-> <<>>, lastIndex |-> e]

\* the while loop over attrRegExp.exec(attrs): the attrs of the token and
\* the lastIndex the loop leaves
RECURSIVE attrLoop(_, _, _)
attrLoop(a, lastIndex, attrs) ==
  LET m == attrExec(a, lastIndex)
  IN IF ~m.found THEN [attrs |-> attrs, lastIndex |-> m.lastIndex]
     ELSE attrLoop(a, m.lastIndex,
                   dictSet(attrs, camelize(m.key), JsString(unescape(m.value))))

\* the while loop over tagRegExp.exec(source) and the push after it: a
\* string token is [str |-> s], a Token has tag, close, empty and attrs.
\* tokenizeFrom continues with `tokens` pushed so far and attrRegExp at
\* lastIndex; the result holds the tokens and the lastIndex left.
RECURSIVE tokenizeFrom(_, _, _)
RECURSIVE tokensWith(_, _, _, _)
tokenizeFrom(src, lastIndex, tokens) == tokensWith(src, tagExec(src), lastIndex, tokens)

\* the rest of the loop body once the attrs of the tag have been scanned
tokensAfter(src, tagCap, scanned, tokens) ==
  tokenizeFrom(sliceFrom(src, tagCap.index + tagCap.len), scanned.lastIndex,
               Append(tokens, [tag |-> tagCap.tag, close |-> tagCap.close,
                               empty |-> tagCap.empty, attrs |-> scanned.attrs]))

\* the tokens of src when tagRegExp.exec(src) is tagCap
tokensWith(src, tagCap, lastIndex, tokens) ==
  IF ~tagCap.found
  THEN [tokens |-> IF src # <<>> THEN Append(tokens, [str |-> src]) ELSE tokens,
        lastIndex |-> lastIndex]
  ELSE tokensAfter(src, tagCap, attrLoop(tagCap.attrs, lastIndex, <<>>),
                   IF tagCap.index # 0
                   THEN Append(tokens, [str |-> unescape(slice(src, 0, tagCap.index))])
                   ELSE tokens)

\* the tokens of src when parse is the first call after the module is loaded
tokenize(src) == tokenizeFrom(src, 0, <<>>).tokens

----------------------------------------------------------------------------
(* parse: the tree builder *)

\* the children of the node at `path` below the root (path <<>>: the root)
RECURSIVE childrenAt(_, _)
childrenAt(forest, path) ==
  IF path = <<>> THEN forest ELSE childrenAt(forest[path[1]].children, Tail(path))

\* node.children.push(element) for the node at `path`
RECURSIVE pushAt(_, _, _)
pushAt(forest, path, element) ==
  IF path = <<>> THEN Append(forest, element)
  ELSE [forest EXCEPT ![path[1]].children = pushAt(@, Tail(path), element)]

\* one turn of `for (const token of tokens)`.  st.root holds the children
\* of the Element(null) the stack was seeded with, st.stack the open
\* elements, innermost first, each by its path below that root; reading
\* stack[0].children of an empty stack throws a TypeError.
buildStep(st, token) ==
  IF st.threw THEN st
  ELSE IF IsStr(token)
    THEN IF st.stack = <<>> THEN [st EXCEPT !.threw = TRUE]
         ELSE [st EXCEPT !.root = pushAt(@, st.stack[1], toElement(token))]
  ELSE IF token.close # <<>>
    THEN [st EXCEPT !.stack = IF @ = <<>> THEN @ ELSE Tail(@)]
  ELSE IF st.stack = <<>> THEN [st EXCEPT !.threw = TRUE]
  ELSE LET top == st.stack[1]
           element == Element(token.tag, token.attrs, <<>>)
           at == top \o <<Len(childrenAt(st.root, top)) + 1>>
       IN [st EXCEPT !.root = pushAt(@, top, element),
                     !.stack = IF token.empty = <<>> THEN <<at>> \o @ ELSE @]

RECURSIVE build(_, _)
build(st, tokens) ==
  IF tokens = <<>> THEN st ELSE build(buildStep(st, tokens[1]), Tail(tokens))

\* return stack[stack.length - 1].children, a TypeError when the stack is
\* empty
lastChildren(st) ==
  IF st.threw \/ st.stack = <<>> THEN [threw |-> TRUE, out |-> <<>>]
  ELSE [threw |-> FALSE, out |-> childrenAt(st.root, st.stack[Len(st.stack)])]

\* parse(source)
parse(src) ==
  lastChildren(build([root |-> <<>>, stack |-> << <<>> >>, threw |-> FALSE],
                     tokenize(src)))

\* what parse makes of the tokens, and the lastIndex the tokenizing left
parsed(scan) ==
  [result |-> lastChildren(build([root |-> <<>>, stack |-> << <<>> >>, threw |-> FALSE],
                                 scan.tokens)),
   lastIndex |-> scan.lastIndex]

\* parse(src) called when attrRegExp.lastIndex = lastIndex
parseFrom(src, lastIndex) == parsed(tokenizeFrom(src, lastIndex, <<>>))

----------------------------------------------------------------------------
(* The specification of the text operations: a string is escaped and then
   unescaped, or parsed; a forest is serialized with toString and parsed *)

MaxPieces == 3
MaxTextNodes == 3

\* what the input strings are put together from
Pieces ==
  { <<"&">>, <<"<">>, <<">">>, <<"\"">>, <<"x">>, <<" ">>, eLt, eAmp, eQuot,
    <<"<", "a", ">">>, <<"<", "/", "a", ">">>, <<"<", "b", "/", ">">>,
    <<"<", "b", " ", "k", "=", "\"", "v", "\"", ">">> }

RECURSIVE TextsN(_)
TextsN(n) ==
  IF n = 0 THEN {<<>>} ELSE { piece \o rest : piece \in Pieces, rest \in TextsN(n - 1) }

Texts == UNION { TextsN(n) : n \in 0..MaxPieces }

TextAttrs == { <<>>, <<[key |-> <<"k">>, value |-> JsString(<<"v">>)]>> }
TextContents == { <<"x">>, <<"<">>, <<"a", "&", "b">> }

\* forests of n nodes built with Element(type, attrs, children) and
\* Element('text', { content })
RECURSIVE TextForestsN(_)
TextForestsN(n) ==
  IF n = 0 THEN {<<>>}
  ELSE { <<TextNode(content)>> \o rest :
           content \in TextContents, rest \in TextForestsN(n - 1) }
       \cup UNION { { <<Element(type, attrs, kids)>> \o rest :
                        type \in Types, attrs \in TextAttrs,
                        kids \in TextForestsN(k - 1), rest \in TextForestsN(n - k) } :
                    k \in 1..n }

TextForests == UNION { TextForestsN(n) : n \in 0..MaxTextNodes }

\* tags written with the explicit self-closing syntax, '<a/>', '<a />' and
\* '<a k="v"/>', alone and with something after them
SelfClosingTags ==
  { <<"<", "a", "/", ">">>, <<"<", "a", " ", "/", ">">>,
    <<"<", "a", " ", "k", "=", "\"", "v", "\"", "/", ">">> }

Followers == { <<>>, <<"x">>, <<"<", "b", ">">> }

SelfClosingTexts == { tag \o follower : tag \in SelfClosingTags, follower \in Followers }

InitText ==
  /\ \/ text \in Texts \cup SelfClosingTexts /\ source = <<>>
     \/ text = <<>> /\ source \in TextForests
  /\ original = text
  /\ given = source
  /\ rules = <<>>
  /\ query = <<>>
  /\ call = "none"
  /\ ret = [of |-> "none", inline |-> FALSE, result |-> [threw |-> FALSE, out |-> <<>>]]
  /\ tasks = <<>>
  /\ aggs = <<>>
  /\ InitSync /\ InitScanners /\ NoRequest

\* text = Element.escape(text, inline)
Escape(inline) ==
  /\ call = "none"
  /\ source = <<>>
  /\ text' = escape(text, inline)
  /\ call' = "escape"
  /\ ret' = [ret EXCEPT !.inline = inline]
  /\ UNCHANGED <<sync, combRegExp, attrRegExp, webhook, source, given, rules, query, original, tasks, aggs>>

\* text = Element.unescape(text)
Unescape ==
  /\ call = "escape"
  /\ text' = unescape(text)
  /\ call' = "unescape"
  /\ UNCHANGED <<sync, combRegExp, attrRegExp, webhook, source, given, rules, query, original, ret, tasks, aggs>>

\* text = source.join('')
Serialize ==
  /\ call = "none"
  /\ text = <<>>
  /\ text' = joinAll(source)
  /\ call' = "toString"
  /\ UNCHANGED <<sync, combRegExp, attrRegExp, webhook, source, given, rules, query, original, ret, tasks, aggs>>

\* Element.parse(text), of a given string or of a serialized forest
Parse ==
  /\ \/ call = "none" /\ source = <<>>
     \/ call = "toString"
  /\ ret' = [ret EXCEPT !.of = call, !.result = parse(text)]
  /\ call' = "parse"
  /\ UNCHANGED <<sync, combRegExp, attrRegExp, webhook, source, given, rules, query, text, original, tasks, aggs>>

NextText ==
  \/ \E inline \in BOOLEAN : Escape(inline)
  \/ Unescape
  \/ Serialize
  \/ Parse

SpecText == InitText /\ [][NextText]_vars

----------------------------------------------------------------------------
(* Claims about parse, toString, escape and unescape *)

\* C6: parse never fails: for every input string, also one with more
\* closing tags than opening tags or with unclosed opening tags, parse
\* returns a forest and raises no error.
C6_ParseNeverFails == call = "parse" => ~ret.result.threw

\* C7: round trip: parse applied to the concatenated toString() of a forest
\* built from the public constructors returns a forest structurally equal
\* to the original.
C7_RoundTrip ==
  (call = "parse" /\ ret.of = "toString")
    => (~ret.result.threw /\ ret.result.out = given)

\* the tree the claim describes for the tokens from the first on, as the
\* children of one open element (or of the root frame): a text token and a
\* self-closing tag are one childless node, an opening tag is a node that
\* holds what follows up to the closing tag that closes it, whatever its
\* name, or up to the end of the input.  `closed` tells that a closing tag
\* ended the list, `rest` holds the tokens after it.
RECURSIVE ChildrenUntilClosed(_)
ChildrenUntilClosed(tokens) ==
  IF tokens = <<>> THEN [forest |-> <<>>, rest |-> <<>>, closed |-> FALSE]
  ELSE IF IsStr(tokens[1])
    THEN LET after == ChildrenUntilClosed(Tail(tokens))
         IN [after EXCEPT !.forest = <<TextNode(tokens[1].str)>> \o @]
  ELSE IF tokens[1].close # <<>>
    THEN [forest |-> <<>>, rest |-> Tail(tokens), closed |-> TRUE]
  ELSE IF tokens[1].empty # <<>>
    THEN LET after == ChildrenUntilClosed(Tail(tokens))
         IN [after EXCEPT !.forest = <<Node(tokens[1].tag, tokens[1].attrs, <<>>)>> \o @]
  ELSE LET inner == ChildrenUntilClosed(Tail(tokens))
           after == ChildrenUntilClosed(inner.rest)
       IN [after EXCEPT !.forest = <<Node(tokens[1].tag, tokens[1].attrs, inner.forest)>> \o @]

\* the children of the root frame: a closing tag with no element open
\* closes nothing
RECURSIVE RootChildren(_)
RootChildren(tokens) ==
  LET top == ChildrenUntilClosed(tokens)
  IN IF top.closed THEN top.forest \o RootChildren(top.rest) ELSE top.forest

\* C18: in the tree building of parse a closing tag closes the innermost
\* open element whatever its name, every later token is appended to the
\* element that becomes the top, and at the end of the input the forest
\* returned is the children of the root frame, the elements never closed
\* holding all nodes parsed after them.
C18_TreeBuilding ==
  call = "parse" =>
    /\ ~ret.result.threw
    /\ ret.result.out = RootChildren(tokenize(text))

\* the same whenever parse returns
TreeBuildingWhenReturned ==
  (call = "parse" /\ ~ret.result.threw) => ret.result.out = RootChildren(tokenize(text))

\* '<a><b k="v"></a>x' was parsed: the closing tag closed the b, and the
\* text went into the a, which was never closed
TreeBuildingWitness ==
  /\ call = "parse"
  /\ ~ret.result.threw
  /\ Len(ret.result.out) = 1
  /\ ret.result.out[1].type = sA
  /\ Len(ret.result.out[1].children) = 2
  /\ ret.result.out[1].children[1].type = sB
  /\ ret.result.out[1].children[2] = TextNode(sX)

\* C19: for a tag written with the explicit self-closing syntax, a '/'
\* right before the '>', with or without attributes and with or without
\* whitespace before the '/', parse produces a childless node whose type is
\* the tag name and does not descend into it: what follows becomes its
\* sibling, not its child.
C19_SelfClosingTag ==
  (call = "parse" /\ ret.of = "none") =>
    \A tag \in SelfClosingTags, follower \in Followers :
      text = tag \o follower =>
        /\ ~ret.result.threw
        /\ Len(ret.result.out) = (IF follower = <<>> THEN 1 ELSE 2)
        /\ ret.result.out[1].type = sA
        /\ ret.result.out[1].children = <<>>

\* the same for the tags that have whitespace or attributes before the '/'
SelfClosingAfterSpaceOrAttrs ==
  (call = "parse" /\ ret.of = "none") =>
    \A tag \in SelfClosingTags \ {<<"<", "a", "/", ">">>}, follower \in Followers :
      text = tag \o follower =>
        /\ ~ret.result.threw
        /\ Len(ret.result.out) = (IF follower = <<>> THEN 1 ELSE 2)
        /\ ret.result.out[1].type = sA
        /\ ret.result.out[1].children = <<>>

\* the text runs of the input, unescaped: what stands before each tag and
\* after the last, or the whole input when there is no tag
RECURSIVE UnescapedRuns(_)
RECURSIVE UnescapedRunsWith(_, _)
UnescapedRuns(src) == UnescapedRunsWith(src, tagExec(src))

UnescapedRunsWith(src, tag) ==
  IF ~tag.found THEN (IF src # <<>> THEN <<unescape(src)>> ELSE <<>>)
  ELSE (IF tag.index # 0 THEN <<unescape(slice(src, 0, tag.index))>> ELSE <<>>)
         \o UnescapedRuns(sliceFrom(src, tag.index + tag.len))

\* the contents of the text nodes of a forest in document order
RECURSIVE TextsOf(_)
TextsOf(forest) ==
  IF forest = <<>> THEN <<>>
  ELSE (IF forest[1].type = sText THEN <<dictGet(forest[1].attrs, sContent).v>> ELSE <<>>)
         \o TextsOf(forest[1].children) \o TextsOf(Tail(forest))

\* C20: every text run of the input of parse becomes a text node whose
\* content is the unescaped run, wherever the run stands: before the first
\* tag, between two tags, after the last tag, and when the input has no tag.
C20_TextRunsUnescaped ==
  (call = "parse" /\ ~ret.result.threw) => TextsOf(ret.result.out) = UnescapedRuns(text)

\* the runs the code does unescape: those that have a tag after them
RECURSIVE RunsBeforeTags(_, _)
RunsBeforeTags(src, tag) ==
  IF ~tag.found THEN <<>>
  ELSE (IF tag.index # 0 THEN <<unescape(slice(src, 0, tag.index))>> ELSE <<>>)
         \o RunsBeforeTags(sliceFrom(src, tag.index + tag.len),
                           tagExec(sliceFrom(src, tag.index + tag.len)))

RunsBeforeTagsUnescaped ==
  (call = "parse" /\ ~ret.result.threw) =>
    LET runs == RunsBeforeTags(text, tagExec(text))
        texts == TextsOf(ret.result.out)
    IN Len(texts) >= Len(runs) /\ SubSeq(texts, 1, Len(runs)) = runs

\* C8: unescape(escape(s, inline)) = s for every string s and both values
\* of inline, also for strings that already contain entity-like text.
C8_UnescapeInvertsEscape == call = "unescape" => text = original

\* an inline escape of '&lt;"' has been unescaped
C8_Witness ==
  /\ call = "unescape"
  /\ ret.inline
  /\ original = eLt \o <<"\"">>
  /\ text = original

----------------------------------------------------------------------------
(* createFactory and createAssetFactory *)

JsUndefined == [t |-> "undefined", v |-> <<"u", "n", "d", "e", "f", "i", "n", "e", "d">>]
JsNumber(digits) == [t |-> "number", v |-> digits]

sId == <<"i", "d">>
sUrl == <<"u", "r", "l">>

\* keys.forEach((key, index) => ...): args[index] is stored as it is
RECURSIVE factoryKeys(_, _, _, _)
factoryKeys(attrs, keys, args, index) ==
  IF index >= Len(keys) THEN attrs
  ELSE LET arg == IF index < Len(args) THEN args[index + 1] ELSE JsUndefined
       IN factoryKeys(IF isNullable(arg) THEN attrs ELSE dictSet(attrs, keys[index + 1], arg),
                      keys, args, index + 1)

\* Object.assign(target, from): every own entry of `from`, as it is
RECURSIVE assign(_, _)
assign(target, from) ==
  IF from = <<>> THEN target
  ELSE assign(dictSet(target, from[1].key, from[1].value), Tail(from))

\* the Factory createFactory(type, ...keys) returns, called with the
\* positional args and a trailing attrs object ({} when there is none)
createFactory(type, keys, args, attrs) ==
  LET element == Element(type, <<>>, <<>>)
  IN [element EXCEPT !.attrs = assign(factoryKeys(@, keys, args, 0), attrs)]

\* the Factory createAssetFactory(type) returns, called with a string
createAssetFactory(type, value, attrs) ==
  Element(type, dictSet(attrs, sUrl, value), <<>>)

Factories == { <<"a", "t">>, <<"s", "h", "a", "r", "p">>, <<"q", "u", "o", "t", "e">> }
AssetFactories == { <<"i", "m", "a", "g", "e">>, <<"v", "i", "d", "e", "o">>,
                    <<"a", "u", "d", "i", "o">>, <<"f", "i", "l", "e">> }

----------------------------------------------------------------------------
(* The caller of the constructors: Element, a positional factory or an asset
   factory is called with the given arguments, and an Element is serialized *)

MaxAttrs == 2

sDisabled == <<"d", "i", "s", "a", "b", "l", "e", "d">>

AttrKeys == { <<"k">>, <<"d", "K">>, sDisabled }
AttrValues == { JsTrue, JsFalse, JsNull, JsUndefined, JsString(<<"v">>), JsNumber(<<"1">>) }

\* the attrs objects of n entries, every key once
RECURSIVE AttrDictsN(_)
AttrDictsN(n) ==
  IF n = 0 THEN {<<>>}
  ELSE UNION { { Append(dict, [key |-> key, value |-> value]) :
                   key \in { k \in AttrKeys : \A i \in 1..Len(dict) : dict[i].key # k },
                   value \in AttrValues } :
               dict \in AttrDictsN(n - 1) }

AttrDicts == UNION { AttrDictsN(n) : n \in 0..MaxAttrs }

Ids == { JsUndefined, JsNull, JsString(sX), JsNumber(<<"1">>) }

InitCreate ==
  /\ given \in [type : {sA}, id : Ids, attrs : AttrDicts,
                children : {<<>>, <<[str |-> sX]>>}]
  /\ source = <<>>
  /\ rules = <<>>
  /\ query = <<>>
  /\ text = <<>>
  /\ original = <<>>
  /\ call = "none"
  /\ ret = Node(<<>>, <<>>, <<>>)
  /\ tasks = <<>>
  /\ aggs = <<>>
  /\ InitSync /\ InitScanners /\ NoRequest

\* ret = Element(type, attrs, children)
CallElement ==
  /\ call = "none"
  /\ ret' = Element(given.type, given.attrs, given.children)
  /\ call' = "Element"
  /\ UNCHANGED <<sync, combRegExp, attrRegExp, webhook, source, given, rules, query, text, original, tasks, aggs>>

\* ret = Element.at(id, attrs), Element.sharp(id, attrs) or Element.quote(id, attrs)
CallFactory(type) ==
  /\ call = "none"
  /\ given.children = <<>>
  /\ ret' = createFactory(type, <<sId>>, <<given.id>>, given.attrs)
  /\ call' = "factory"
  /\ UNCHANGED <<sync, combRegExp, attrRegExp, webhook, source, given, rules, query, text, original, tasks, aggs>>

\* ret = Element.image(url, attrs), and so for video, audio and file, the
\* url a string
CallAssetFactory(type) ==
  /\ call = "none"
  /\ given.children = <<>>
  /\ given.id.t = "string"
  /\ ret' = createAssetFactory(type, given.id, given.attrs)
  /\ call' = "asset"
  /\ UNCHANGED <<sync, combRegExp, attrRegExp, webhook, source, given, rules, query, text, original, tasks, aggs>>

\* text = ret.toString() for the Element that Element() returned
SerializeElement ==
  /\ call = "Element"
  /\ text' = toString(ret)
  /\ call' = "toString"
  /\ UNCHANGED <<sync, combRegExp, attrRegExp, webhook, source, given, rules, query, original, ret, tasks, aggs>>

NextCreate ==
  \/ CallElement
  \/ \E type \in Factories : CallFactory(type)
  \/ \E type \in AssetFactories : CallAssetFactory(type)
  \/ SerializeElement

SpecCreate == InitCreate /\ [][NextCreate]_vars

----------------------------------------------------------------------------
(* Claims about the constructors *)

\* every value of the attrs is a string
AttrsAreStrings(attrs) == \A i \in 1..Len(attrs) : attrs[i].value.t = "string"

\* C15: every node a public constructor produces has attrs whose values are
\* all strings, whatever arguments it is given, a positional id that is no
\* string and a trailing attrs object holding booleans or nulls included.
C15_AttrsAreStrings ==
  call \in {"Element", "factory", "asset"} => AttrsAreStrings(ret.attrs)

\* the same for Element and the asset factories alone
ElementAttrsAreStrings ==
  call \in {"Element", "asset"} => AttrsAreStrings(ret.attrs)

\* the key Element stores a false value under: 'no' + Capitalize(k)
NegatedKey(key) == <<"n", "o">> \o capitalize(key)

\* what the claim has Element store for the entries of an attrs mapping
RECURSIVE StoredAttrs(_)
StoredAttrs(entries) ==
  IF entries = <<>> THEN <<>>
  ELSE LET key == entries[1].key
           value == entries[1].value
       IN (IF value \in {JsNull, JsUndefined} THEN <<>>
           ELSE IF value = JsTrue THEN <<[key |-> key, value |-> JsString(<<>>)]>>
           ELSE IF value = JsFalse
             THEN <<[key |-> NegatedKey(key), value |-> JsString(<<>>)]>>
           ELSE <<[key |-> key, value |-> JsString(value.v)]>>) \o StoredAttrs(Tail(entries))

\* what the claim has toString write for them: the bare hyphenated key for
\* true, the bare hyphenated negated key for false, nothing for null and
\* undefined, key="value" for anything else
RECURSIVE WrittenAttrs(_)
WrittenAttrs(entries) ==
  IF entries = <<>> THEN <<>>
  ELSE LET key == entries[1].key
           value == entries[1].value
       IN (IF value \in {JsNull, JsUndefined} THEN <<>>
           ELSE IF value = JsTrue THEN <<" ">> \o hyphenate(key)
           ELSE IF value = JsFalse THEN <<" ">> \o hyphenate(NegatedKey(key))
           ELSE <<" ">> \o hyphenate(key) \o <<"=", "\"">> \o value.v \o <<"\"">>)
            \o WrittenAttrs(Tail(entries))

\* C16: for every key k of the attrs mapping given to Element, true is
\* stored as attrs[k] = '' and written by toString as the bare hyphenated
\* key, false is stored under 'no' + Capitalize(k) as '' and written as the
\* bare negated key, null and undefined are neither stored nor written, and
\* a childless element is written as a self-closing tag.
C16_BooleanAttrs ==
  /\ call \in {"Element", "toString"} => ret.attrs = StoredAttrs(given.attrs)
  /\ (call = "toString" /\ given.children = <<>>) =>
       text = <<"<">> \o given.type \o WrittenAttrs(given.attrs) \o <<"/", ">">>

\* Element('a', { disabled: false, k: null }).toString() = '<a no-disabled/>'
C16_Witness ==
  /\ call = "toString"
  /\ given.type = sA
  /\ given.children = <<>>
  /\ given.attrs = <<[key |-> sDisabled, value |-> JsFalse], [key |-> <<"k">>, value |-> JsNull]>>
  /\ ret.attrs = <<[key |-> <<"n", "o", "D">> \o Tail(sDisabled), value |-> JsString(<<>>)]>>
  /\ text = <<"<", "a", " ", "n", "o", "-">> \o sDisabled \o <<"/", ">">>

\* Element('a', { disabled: true }).toString() = '<a disabled/>'
ElementDisabledTrue ==
  /\ call = "toString"
  /\ given.children = <<>>
  /\ given.attrs = <<[key |-> sDisabled, value |-> JsTrue]>>
  /\ text = <<"<", "a", " ">> \o sDisabled \o <<"/", ">">>

----------------------------------------------------------------------------
(* Calls of parseSelector and parse one after the other.  combRegExp and   *)
(* attrRegExp are created once, when the module is loaded, and every call  *)
(* works with the lastIndex the call before it left.                       *)

\* most calls in a row
MaxCalls == 3

\* the selectors and the strings the calls are made with
ScanQueries ==
  { <<"a">>, <<"a", " ", "b">>, <<"a", " ", "b", " ", "c">>,
    <<"a", "a", " ", "b", " ", ">">>, <<"a", ",", "b">>,
    <<"a", " ", ">", " ", "b", ",", "c">> }

ScanTexts ==
  { <<"x">>, <<"<", "a", "/", ">">>, <<"<", "/", "a", ">">>,
    <<"<", "a", " ", "k", "=", "\"", "v", "\"", ">">>,
    <<"<", "a", " ", "k", ">", "x", "<", "/", "a", ">">>,
    <<"<", "a", " ", "b", " ", "c", ">", "<", "b", " ", "k", ">">> }

\* ret lists the calls made so far: the operation, its argument and what
\* it returned
InitCalls ==
  /\ source = <<>>
  /\ given = <<>>
  /\ rules = <<>>
  /\ query = <<>>
  /\ text = <<>>
  /\ original = <<>>
  /\ call = "none"
  /\ ret = <<>>
  /\ tasks = <<>>
  /\ aggs = <<>>
  /\ InitSync /\ InitScanners /\ NoRequest

\* parseSelector(q)
CallParseSelector(q) ==
  /\ Len(ret) < MaxCalls
  /\ LET r == parseSelectorFrom(q, combRegExp.lastIndex)
     IN /\ ret' = Append(ret, [of |-> "parseSelector", arg |-> q, result |-> r.selectors])
        /\ combRegExp' = [lastIndex |-> r.lastIndex]
  /\ query' = q
  /\ call' = "parseSelector"
  /\ UNCHANGED <<source, given, rules, text, original, tasks, aggs, sync, attrRegExp,
                 webhook>>

\* parse(t)
CallParse(t) ==
  /\ Len(ret) < MaxCalls
  /\ LET r == parseFrom(t, attrRegExp.lastIndex)
     IN /\ ret' = Append(ret, [of |-> "parse", arg |-> t, result |-> r.result])
        /\ attrRegExp' = [lastIndex |-> r.lastIndex]
  /\ text' = t
  /\ call' = "parse"
  /\ UNCHANGED <<source, given, rules, query, original, tasks, aggs, sync, combRegExp,
                 webhook>>

NextCalls ==
  \/ \E q \in ScanQueries : CallParseSelector(q)
  \/ \E t \in ScanTexts : CallParse(t)

SpecCalls == InitCalls /\ [][NextCalls]_vars

\* what a call returns when nothing was called before it
Alone(of, arg) ==
  IF of = "parse" THEN parseFrom(arg, 0).result ELSE parseSelectorFrom(arg, 0).selectors

\* C25: the lastIndex of combRegExp and of attrRegExp is 0 whenever a call
\* of parse or parseSelector starts and when it returns, so in any sequence
\* of calls each call returns what it returns for its argument alone,
\* whatever was called before it.
C25_CallsIndependent ==
  /\ combRegExp.lastIndex = 0
  /\ attrRegExp.lastIndex = 0
  /\ \A i \in 1..Len(ret) : ret[i].result = Alone(ret[i].of, ret[i].arg)

\* C25's case: after parseSelector('a b c'), whose loop ran with a lastIndex
\* past the second space, and parse('<a k="v">'), the selector 'a b' has
\* been parsed into its two steps
C25_Witness ==
  /\ Len(ret) = 3
  /\ ret[1].of = "parseSelector" /\ ret[1].arg = <<"a", " ", "b", " ", "c">>
  /\ ret[2].of = "parse"
  /\ ret[2].arg = <<"<", "a", " ", "k", "=", "\"", "v", "\"", ">">>
  /\ ret[2].result.out = <<Node(sA, <<[key |-> <<"k">>, value |-> JsString(<<"v">>)]>>, <<>>)>>
  /\ ret[3].of = "parseSelector"
  /\ ret[3].result
       = << <<[type |-> sA, combinator |-> " "], [type |-> sB, combinator |-> " "]>> >>

----------------------------------------------------------------------------
(* The POST /wechatofficial handler, from the decoded session on.  The     *)
(* handler is an async function: it runs up to `await promise`, and its    *)
(* continuation runs once the promise has settled.  The callback of        *)
(* setTimeout and the function stored as session.wechatOfficialResolve run *)
(* in between, each as a whole: JavaScript runs one callback at a time.    *)
(* The response is ctx as it is when the handler returns.                  *)

\* most calls of session.wechatOfficialResolve for one request
MaxResolves == 3

sSuccess == <<"s", "u", "c", "c", "e", "s", "s">>
sTimeout == <<"t", "i", "m", "e", "o", "u", "t">>

\* the texts a plugin resolves a session with
ReplyTexts == { sX, <<"h", "i">>, sSuccess }

Resolved(t) == [kind |-> "resolve", text |-> t]
Expired == [kind |-> "expire", text |-> <<>>]

\* the request has been decoded: the bot has customerService or not, an
\* aesKey or not, and decodeMessage gave a session or none
InitWebhook ==
  /\ source = <<>>
  /\ given = <<>>
  /\ rules = <<>>
  /\ query = <<>>
  /\ text = <<>>
  /\ original = <<>>
  /\ call = "none"
  /\ ret = <<>>
  /\ tasks = <<>>
  /\ aggs = <<>>
  /\ InitSync /\ InitScanners
  /\ request \in [customerService : BOOLEAN, aesKey : BOOLEAN, session : BOOLEAN]
  /\ pc = "decoded"
  /\ promise = [state |-> "none", value |-> <<>>]
  /\ timeout = "none"
  /\ ctx = [status |-> 0, body |-> [text |-> <<>>, encrypted |-> FALSE]]
  /\ events = <<>>

\* the handler up to `await promise`: the executor of the promise resolves
\* it at once for a bot with customerService, and else sets the timer and
\* makes resolveFunction; the session, if any, gets resolveFunction and is
\* dispatched
Handle ==
  /\ pc = "decoded"
  /\ IF request.customerService
     THEN promise' = [state |-> "fulfilled", value |-> sSuccess] /\ timeout' = "none"
     ELSE promise' = [state |-> "pending", value |-> <<>>] /\ timeout' = "set"
  /\ pc' = "awaiting"
  /\ UNCHANGED <<source, given, rules, query, text, original, call, ret, tasks, aggs,
                 sync, combRegExp, attrRegExp, request, ctx, events>>

\* a resolveFunction that settles the promise again when it is settled
ResolveAgain(t) ==
  /\ pc # "decoded"
  /\ request.session
  /\ ~request.customerService
  /\ Cardinality({ i \in 1..Len(events) : events[i].kind = "resolve" }) < MaxResolves
  /\ promise' = [state |-> "fulfilled", value |-> t]
  /\ timeout' = IF timeout = "set" THEN "cleared" ELSE timeout
  /\ events' = Append(events, Resolved(t))
  /\ UNCHANGED <<source, given, rules, query, text, original, call, ret, tasks, aggs,
                 sync, combRegExp, attrRegExp, request, pc, ctx>>

\* session.wechatOfficialResolve(t), called by whoever handles the
\* dispatched session: resolve(t), which a settled promise ignores, and
\* clearTimeout(timeout), which a timer that has fired ignores.  A bot with
\* customerService leaves resolveFunction undefined.
Resolve(t) ==
  /\ pc # "decoded"
  /\ request.session
  /\ ~request.customerService
  /\ Cardinality({ i \in 1..Len(events) : events[i].kind = "resolve" }) < MaxResolves
  /\ promise' = IF promise.state = "pending"
                THEN [state |-> "fulfilled", value |-> t]
                ELSE promise
  /\ timeout' = IF timeout = "set" THEN "cleared" ELSE timeout
  /\ events' = Append(events, Resolved(t))
  /\ UNCHANGED <<source, given, rules, query, text, original, call, ret, tasks, aggs,
                 sync, combRegExp, attrRegExp, request, pc, ctx>>

\* the callback of setTimeout runs, 4500 ms after it was set
Expire ==
  /\ timeout = "set"
  /\ ctx' = [status |-> 200, body |-> [text |-> sSuccess, encrypted |-> FALSE]]
  /\ promise' = IF promise.state = "pending"
                THEN [state |-> "rejected", value |-> sTimeout]
                ELSE promise
  /\ timeout' = "fired"
  /\ events' = Append(events, Expired)
  /\ UNCHANGED <<source, given, rules, query, text, original, call, ret, tasks, aggs,
                 sync, combRegExp, attrRegExp, request, pc>>

\* the handler from `await promise` on: the try block with the result of a
\* fulfilled promise, encrypted into the xml envelope for a bot with an
\* aesKey, or the catch block; then the handler returns.  Setting the body
\* while no status is set makes the status 200.
Continue ==
  /\ pc = "awaiting"
  /\ promise.state \in {"fulfilled", "rejected"}
  /\ ctx' = IF promise.state = "fulfilled"
            THEN [status |-> 200,
                  body |-> [text |-> promise.value, encrypted |-> request.aesKey]]
            ELSE [status |-> 200, body |-> [text |-> sSuccess, encrypted |-> FALSE]]
  /\ pc' = "done"
  /\ UNCHANGED <<source, given, rules, query, text, original, call, ret, tasks, aggs,
                 sync, combRegExp, attrRegExp, request, promise, timeout, events>>

NextWebhook ==
  \/ Handle
  \/ \E t \in ReplyTexts : Resolve(t)
  \/ Expire
  \/ Continue

\* the event loop runs a handler that can run, a continuation whose promise
\* has settled, and the callback of a timer that is set; nobody has to call
\* session.wechatOfficialResolve
SpecWebhook ==
  /\ InitWebhook
  /\ [][NextWebhook]_vars
  /\ WF_vars(Handle)
  /\ WF_vars(Expire)
  /\ WF_vars(Continue)

\* the request has been answered: the handler has returned
Answered == pc = "done"

\* the reply is what the first event decided: the text of the first resolve
\* call, with the timer cancelled, or 'success' when the timer expired first
DecidedByFirst ==
  (Answered /\ ~request.customerService) =>
    /\ events # <<>>
    /\ ctx.status = 200
    /\ IF events[1].kind = "resolve"
       THEN ctx.body.text = events[1].text /\ timeout = "cleared"
       ELSE ctx.body = [text |-> sSuccess, encrypted |-> FALSE] /\ timeout = "fired"

\* C26: for a bot without customerService every request is eventually
\* answered, and its reply is decided exactly once by whichever happens
\* first: a call of session.wechatOfficialResolve(text) (the reply is text,
\* the timer cancelled) or the expiry of the reply timer (the reply is
\* 'success'); a resolve call after the timer expired, or after the reply,
\* does not change the reply.
C26_ReplyDecidedOnce ==
  /\ [](DecidedByFirst)
  /\ [][(~request.customerService /\ promise.state \in {"fulfilled", "rejected"})
          => promise' = promise]_vars
  /\ [][Answered => ctx' = ctx]_vars
  /\ (~request.customerService) ~> Answered

\* C26's case: the timer expired, the session was resolved with 'x' after
\* that, and the request has been answered with 'success'
C26_Witness ==
  /\ ~request.customerService
  /\ Answered
  /\ events = <<Expired, Resolved(sX)>>
  /\ ctx.body.text = sSuccess

====
